---- MODULE Spec2Model ----
(***************************************************************************)
(* Model of the trading-strategy scraper:                                  *)
(*   src/multi_source_scraper_dynamic.py  (DynamicCriteriaReader,          *)
(*                                         MultiSourceScraper,             *)
(*                                         lambda_handler)                 *)
(*   src/n8n_wrapper.py                   (the Flask /scrape endpoint)     *)
(*                                                                         *)
(* Text is a sequence of code points, so that float(), strip(), lower()   *)
(* and the regular expressions are computed character by character as      *)
(* Python computes them.                                                   *)
(***************************************************************************)
EXTENDS Integers, Sequences, FiniteSets, TLC

VARIABLES
    pc,                 \* position of the running invocation
    entry,              \* "none", "lambda" or "http": the entry point taken
    settings,           \* raw Settings mapping: key -> text
    criteria,           \* criteria dict: key -> value
    is_valid,           \* the flag returned by validate_criteria
    errors,             \* the violation messages returned by validate_criteria
    calls,              \* log of the operations invoked so far
    items,              \* items of the YouTube search response
    upstream,           \* per adapter: "not_called", "ok" or "failed"
    youtube_strategies, \* scrape_all: what scrape_youtube returned
    oa_strategies,      \* scrape_all: what scrape_option_alpha returned
    qc_strategies,      \* scrape_all: what scrape_quantconnect returned
    all_strategies,     \* scrape_all: the aggregated list
    strategy,           \* the record handed to _meets_criteria
    verdict,            \* _meets_criteria: "none", "accept", "reject", "raise"
    response            \* what the entry point returned to its caller

vars == <<pc, entry, settings, criteria, is_valid, errors, calls, items, upstream,
          youtube_strategies, oa_strategies, qc_strategies, all_strategies,
          strategy, verdict, response>>

(***************************************************************************)
(* Characters and text.  A character is its Unicode code point, a number   *)
(* in 0..1114111, and a text is a sequence of characters.  The tables are  *)
(* those of Python 3.11 (Unicode 14.0).                                    *)
(***************************************************************************)
\* the code points of the printable ASCII characters but the grave accent
Ord ==
    [c \in {SubSeq(" !\"#$%&'()*+,-./0123456789:;<=>?@ABCDEFGHIJKLMNOPQRSTUVWXYZ[\\]^_", k, k) :
                k \in 1..64} |->
        31 + CHOOSE k \in 1..64 :
                SubSeq(" !\"#$%&'()*+,-./0123456789:;<=>?@ABCDEFGHIJKLMNOPQRSTUVWXYZ[\\]^_", k, k) = c]
    @@ [c \in {SubSeq("abcdefghijklmnopqrstuvwxyz{|}~", k, k) : k \in 1..30} |->
        96 + CHOOSE k \in 1..30 : SubSeq("abcdefghijklmnopqrstuvwxyz{|}~", k, k) = c]

\* the text a string of printable ASCII characters stands for
Text(str) == <<>> \o [i \in 1..Len(str) |-> Ord[SubSeq(str, i, i)]]

\* the class [0-9] of the metric patterns
IsDigit(c) == c \in 48..57

\* the digit zero of each script of decimal digits (Unicode category Nd);
\* the nine code points after it are the digits one to nine
DecimalZeros ==
    {48, 1632, 1776, 1984, 2406, 2534, 2662, 2790, 2918, 3046, 3174, 3302,
     3430, 3558, 3664, 3792, 3872, 4160, 4240, 6112, 6160, 6470, 6608, 6784,
     6800, 6992, 7088, 7232, 7248, 42528, 43216, 43264, 43472, 43504, 43600,
     44016, 65296, 66720, 68912, 69734, 69872, 69942, 70096, 70384, 70736,
     70864, 71248, 71360, 71472, 71904, 72016, 72784, 73040, 73120, 92768,
     92864, 93008, 120782, 120792, 120802, 120812, 120822, 123200, 123632,
     125264, 130032}

\* the decimal digits float() reads
IsDecimal(c) == \E z \in DecimalZeros : c \in z..(z + 9)

DecimalVal(c) == c - (CHOOSE z \in DecimalZeros : c \in z..(z + 9))

\* str.isspace on one character
SpaceChars ==
    {9, 10, 11, 12, 13, 28, 29, 30, 31, 32, 133, 160, 5760, 8192, 8193,
     8194, 8195, 8196, 8197, 8198, 8199, 8200, 8201, 8202, 8232, 8233, 8239,
     8287, 12288}

\* white space of str.strip and of the class \s of the metric patterns
IsSpace(c) == c \in SpaceChars

\* white space float() skips around a number: the ASCII white space of C
\* and the white space above U+007F
IsFloatSpace(c) == IsSpace(c) /\ c \notin 28..31

\* the simple lower-case mapping: <<first, last, step, delta>> maps the code
\* points first, first + step, ..., last to themselves plus delta
LowerRanges ==
    {<<65, 90, 1, 32>>, <<192, 214, 1, 32>>, <<216, 222, 1, 32>>,
     <<256, 302, 2, 1>>, <<304, 304, 1, -199>>, <<306, 310, 2, 1>>,
     <<313, 327, 2, 1>>, <<330, 374, 2, 1>>, <<376, 376, 1, -121>>,
     <<377, 381, 2, 1>>, <<385, 385, 1, 210>>, <<386, 388, 2, 1>>,
     <<390, 390, 1, 206>>, <<391, 391, 1, 1>>, <<393, 394, 1, 205>>,
     <<395, 395, 1, 1>>, <<398, 398, 1, 79>>, <<399, 399, 1, 202>>,
     <<400, 400, 1, 203>>, <<401, 401, 1, 1>>, <<403, 403, 1, 205>>,
     <<404, 404, 1, 207>>, <<406, 406, 1, 211>>, <<407, 407, 1, 209>>,
     <<408, 408, 1, 1>>, <<412, 412, 1, 211>>, <<413, 413, 1, 213>>,
     <<415, 415, 1, 214>>, <<416, 420, 2, 1>>, <<422, 422, 1, 218>>,
     <<423, 423, 1, 1>>, <<425, 425, 1, 218>>, <<428, 428, 1, 1>>,
     <<430, 430, 1, 218>>, <<431, 431, 1, 1>>, <<433, 434, 1, 217>>,
     <<435, 437, 2, 1>>, <<439, 439, 1, 219>>, <<440, 440, 1, 1>>,
     <<444, 444, 1, 1>>, <<452, 452, 1, 2>>, <<453, 453, 1, 1>>,
     <<455, 455, 1, 2>>, <<456, 456, 1, 1>>, <<458, 458, 1, 2>>,
     <<459, 475, 2, 1>>, <<478, 494, 2, 1>>, <<497, 497, 1, 2>>,
     <<498, 500, 2, 1>>, <<502, 502, 1, -97>>, <<503, 503, 1, -56>>,
     <<504, 542, 2, 1>>, <<544, 544, 1, -130>>, <<546, 562, 2, 1>>,
     <<570, 570, 1, 10795>>, <<571, 571, 1, 1>>, <<573, 573, 1, -163>>,
     <<574, 574, 1, 10792>>, <<577, 577, 1, 1>>, <<579, 579, 1, -195>>,
     <<580, 580, 1, 69>>, <<581, 581, 1, 71>>, <<582, 590, 2, 1>>,
     <<880, 882, 2, 1>>, <<886, 886, 1, 1>>, <<895, 895, 1, 116>>,
     <<902, 902, 1, 38>>, <<904, 906, 1, 37>>, <<908, 908, 1, 64>>,
     <<910, 911, 1, 63>>, <<913, 929, 1, 32>>, <<931, 939, 1, 32>>,
     <<975, 975, 1, 8>>, <<984, 1006, 2, 1>>, <<1012, 1012, 1, -60>>,
     <<1015, 1015, 1, 1>>, <<1017, 1017, 1, -7>>, <<1018, 1018, 1, 1>>,
     <<1021, 1023, 1, -130>>, <<1024, 1039, 1, 80>>, <<1040, 1071, 1, 32>>,
     <<1120, 1152, 2, 1>>, <<1162, 1214, 2, 1>>, <<1216, 1216, 1, 15>>,
     <<1217, 1229, 2, 1>>, <<1232, 1326, 2, 1>>, <<1329, 1366, 1, 48>>,
     <<4256, 4293, 1, 7264>>, <<4295, 4295, 1, 7264>>,
     <<4301, 4301, 1, 7264>>, <<5024, 5103, 1, 38864>>,
     <<5104, 5109, 1, 8>>, <<7312, 7354, 1, -3008>>,
     <<7357, 7359, 1, -3008>>, <<7680, 7828, 2, 1>>,
     <<7838, 7838, 1, -7615>>, <<7840, 7934, 2, 1>>, <<7944, 7951, 1, -8>>,
     <<7960, 7965, 1, -8>>, <<7976, 7983, 1, -8>>, <<7992, 7999, 1, -8>>,
     <<8008, 8013, 1, -8>>, <<8025, 8031, 2, -8>>, <<8040, 8047, 1, -8>>,
     <<8072, 8079, 1, -8>>, <<8088, 8095, 1, -8>>, <<8104, 8111, 1, -8>>,
     <<8120, 8121, 1, -8>>, <<8122, 8123, 1, -74>>, <<8124, 8124, 1, -9>>,
     <<8136, 8139, 1, -86>>, <<8140, 8140, 1, -9>>, <<8152, 8153, 1, -8>>,
     <<8154, 8155, 1, -100>>, <<8168, 8169, 1, -8>>,
     <<8170, 8171, 1, -112>>, <<8172, 8172, 1, -7>>,
     <<8184, 8185, 1, -128>>, <<8186, 8187, 1, -126>>,
     <<8188, 8188, 1, -9>>, <<8486, 8486, 1, -7517>>,
     <<8490, 8490, 1, -8383>>, <<8491, 8491, 1, -8262>>,
     <<8498, 8498, 1, 28>>, <<8544, 8559, 1, 16>>, <<8579, 8579, 1, 1>>,
     <<9398, 9423, 1, 26>>, <<11264, 11311, 1, 48>>, <<11360, 11360, 1, 1>>,
     <<11362, 11362, 1, -10743>>, <<11363, 11363, 1, -3814>>,
     <<11364, 11364, 1, -10727>>, <<11367, 11371, 2, 1>>,
     <<11373, 11373, 1, -10780>>, <<11374, 11374, 1, -10749>>,
     <<11375, 11375, 1, -10783>>, <<11376, 11376, 1, -10782>>,
     <<11378, 11378, 1, 1>>, <<11381, 11381, 1, 1>>,
     <<11390, 11391, 1, -10815>>, <<11392, 11490, 2, 1>>,
     <<11499, 11501, 2, 1>>, <<11506, 11506, 1, 1>>, <<42560, 42604, 2, 1>>,
     <<42624, 42650, 2, 1>>, <<42786, 42798, 2, 1>>, <<42802, 42862, 2, 1>>,
     <<42873, 42875, 2, 1>>, <<42877, 42877, 1, -35332>>,
     <<42878, 42886, 2, 1>>, <<42891, 42891, 1, 1>>,
     <<42893, 42893, 1, -42280>>, <<42896, 42898, 2, 1>>,
     <<42902, 42920, 2, 1>>, <<42922, 42922, 1, -42308>>,
     <<42923, 42923, 1, -42319>>, <<42924, 42924, 1, -42315>>,
     <<42925, 42925, 1, -42305>>, <<42926, 42926, 1, -42308>>,
     <<42928, 42928, 1, -42258>>, <<42929, 42929, 1, -42282>>,
     <<42930, 42930, 1, -42261>>, <<42931, 42931, 1, 928>>,
     <<42932, 42946, 2, 1>>, <<42948, 42948, 1, -48>>,
     <<42949, 42949, 1, -42307>>, <<42950, 42950, 1, -35384>>,
     <<42951, 42953, 2, 1>>, <<42960, 42960, 1, 1>>, <<42966, 42968, 2, 1>>,
     <<42997, 42997, 1, 1>>, <<65313, 65338, 1, 32>>,
     <<66560, 66599, 1, 40>>, <<66736, 66771, 1, 40>>,
     <<66928, 66964, 2, 39>>, <<66929, 66938, 1, 39>>,
     <<66941, 66954, 1, 39>>, <<66957, 66962, 1, 39>>,
     <<66965, 66965, 1, 39>>, <<68736, 68786, 1, 64>>,
     <<71840, 71871, 1, 32>>, <<93760, 93791, 1, 32>>,
     <<125184, 125217, 1, 34>>}

\* the lower-case character of c (one character for one character)
LowerChar(c) ==
    IF \E r \in LowerRanges : r[1] <= c /\ c <= r[2] /\ (c - r[1]) % r[3] = 0
    THEN c + (CHOOSE r \in LowerRanges :
                  r[1] <= c /\ c <= r[2] /\ (c - r[1]) % r[3] = 0)[4]
    ELSE c

\* the cased characters (upper case, lower case and title case): <<first,
\* last>> stands for the code points first..last
CasedRanges ==
    {<<65, 90>>, <<97, 122>>, <<170, 170>>, <<181, 181>>, <<186, 186>>,
     <<192, 214>>, <<216, 246>>, <<248, 442>>, <<444, 447>>, <<452, 659>>,
     <<661, 696>>, <<704, 705>>, <<736, 740>>, <<837, 837>>, <<880, 883>>,
     <<886, 887>>, <<890, 893>>, <<895, 895>>, <<902, 902>>, <<904, 906>>,
     <<908, 908>>, <<910, 929>>, <<931, 1013>>, <<1015, 1153>>,
     <<1162, 1327>>, <<1329, 1366>>, <<1376, 1416>>, <<4256, 4293>>,
     <<4295, 4295>>, <<4301, 4301>>, <<4304, 4346>>, <<4349, 4351>>,
     <<5024, 5109>>, <<5112, 5117>>, <<7296, 7304>>, <<7312, 7354>>,
     <<7357, 7359>>, <<7424, 7615>>, <<7680, 7957>>, <<7960, 7965>>,
     <<7968, 8005>>, <<8008, 8013>>, <<8016, 8023>>, <<8025, 8025>>,
     <<8027, 8027>>, <<8029, 8029>>, <<8031, 8061>>, <<8064, 8116>>,
     <<8118, 8124>>, <<8126, 8126>>, <<8130, 8132>>, <<8134, 8140>>,
     <<8144, 8147>>, <<8150, 8155>>, <<8160, 8172>>, <<8178, 8180>>,
     <<8182, 8188>>, <<8305, 8305>>, <<8319, 8319>>, <<8336, 8348>>,
     <<8450, 8450>>, <<8455, 8455>>, <<8458, 8467>>, <<8469, 8469>>,
     <<8473, 8477>>, <<8484, 8484>>, <<8486, 8486>>, <<8488, 8488>>,
     <<8490, 8493>>, <<8495, 8500>>, <<8505, 8505>>, <<8508, 8511>>,
     <<8517, 8521>>, <<8526, 8526>>, <<8544, 8575>>, <<8579, 8580>>,
     <<9398, 9449>>, <<11264, 11492>>, <<11499, 11502>>, <<11506, 11507>>,
     <<11520, 11557>>, <<11559, 11559>>, <<11565, 11565>>, <<42560, 42605>>,
     <<42624, 42653>>, <<42786, 42887>>, <<42891, 42894>>, <<42896, 42954>>,
     <<42960, 42961>>, <<42963, 42963>>, <<42965, 42969>>, <<42997, 42998>>,
     <<43000, 43002>>, <<43824, 43866>>, <<43868, 43880>>, <<43888, 43967>>,
     <<64256, 64262>>, <<64275, 64279>>, <<65313, 65338>>, <<65345, 65370>>,
     <<66560, 66639>>, <<66736, 66771>>, <<66776, 66811>>, <<66928, 66938>>,
     <<66940, 66954>>, <<66956, 66962>>, <<66964, 66965>>, <<66967, 66977>>,
     <<66979, 66993>>, <<66995, 67001>>, <<67003, 67004>>, <<67456, 67456>>,
     <<67459, 67461>>, <<67463, 67504>>, <<67506, 67514>>, <<68736, 68786>>,
     <<68800, 68850>>, <<71840, 71903>>, <<93760, 93823>>,
     <<119808, 119892>>, <<119894, 119964>>, <<119966, 119967>>,
     <<119970, 119970>>, <<119973, 119974>>, <<119977, 119980>>,
     <<119982, 119993>>, <<119995, 119995>>, <<119997, 120003>>,
     <<120005, 120069>>, <<120071, 120074>>, <<120077, 120084>>,
     <<120086, 120092>>, <<120094, 120121>>, <<120123, 120126>>,
     <<120128, 120132>>, <<120134, 120134>>, <<120138, 120144>>,
     <<120146, 120485>>, <<120488, 120512>>, <<120514, 120538>>,
     <<120540, 120570>>, <<120572, 120596>>, <<120598, 120628>>,
     <<120630, 120654>>, <<120656, 120686>>, <<120688, 120712>>,
     <<120714, 120744>>, <<120746, 120770>>, <<120772, 120779>>,
     <<122624, 122633>>, <<122635, 122654>>, <<125184, 125251>>,
     <<127280, 127305>>, <<127312, 127337>>, <<127344, 127369>>}

IsCased(c) == \E r \in CasedRanges : r[1] <= c /\ c <= r[2]

\* the characters the search for a cased neighbour passes over
CaseIgnorableRanges ==
    {<<39, 39>>, <<46, 46>>, <<58, 58>>, <<94, 94>>, <<96, 96>>,
     <<168, 168>>, <<173, 173>>, <<175, 175>>, <<180, 180>>, <<183, 184>>,
     <<688, 879>>, <<884, 885>>, <<890, 890>>, <<900, 901>>, <<903, 903>>,
     <<1155, 1161>>, <<1369, 1369>>, <<1375, 1375>>, <<1425, 1469>>,
     <<1471, 1471>>, <<1473, 1474>>, <<1476, 1477>>, <<1479, 1479>>,
     <<1524, 1524>>, <<1536, 1541>>, <<1552, 1562>>, <<1564, 1564>>,
     <<1600, 1600>>, <<1611, 1631>>, <<1648, 1648>>, <<1750, 1757>>,
     <<1759, 1768>>, <<1770, 1773>>, <<1807, 1807>>, <<1809, 1809>>,
     <<1840, 1866>>, <<1958, 1968>>, <<2027, 2037>>, <<2042, 2042>>,
     <<2045, 2045>>, <<2070, 2093>>, <<2137, 2139>>, <<2184, 2184>>,
     <<2192, 2193>>, <<2200, 2207>>, <<2249, 2306>>, <<2362, 2362>>,
     <<2364, 2364>>, <<2369, 2376>>, <<2381, 2381>>, <<2385, 2391>>,
     <<2402, 2403>>, <<2417, 2417>>, <<2433, 2433>>, <<2492, 2492>>,
     <<2497, 2500>>, <<2509, 2509>>, <<2530, 2531>>, <<2558, 2558>>,
     <<2561, 2562>>, <<2620, 2620>>, <<2625, 2626>>, <<2631, 2632>>,
     <<2635, 2637>>, <<2641, 2641>>, <<2672, 2673>>, <<2677, 2677>>,
     <<2689, 2690>>, <<2748, 2748>>, <<2753, 2757>>, <<2759, 2760>>,
     <<2765, 2765>>, <<2786, 2787>>, <<2810, 2815>>, <<2817, 2817>>,
     <<2876, 2876>>, <<2879, 2879>>, <<2881, 2884>>, <<2893, 2893>>,
     <<2901, 2902>>, <<2914, 2915>>, <<2946, 2946>>, <<3008, 3008>>,
     <<3021, 3021>>, <<3072, 3072>>, <<3076, 3076>>, <<3132, 3132>>,
     <<3134, 3136>>, <<3142, 3144>>, <<3146, 3149>>, <<3157, 3158>>,
     <<3170, 3171>>, <<3201, 3201>>, <<3260, 3260>>, <<3263, 3263>>,
     <<3270, 3270>>, <<3276, 3277>>, <<3298, 3299>>, <<3328, 3329>>,
     <<3387, 3388>>, <<3393, 3396>>, <<3405, 3405>>, <<3426, 3427>>,
     <<3457, 3457>>, <<3530, 3530>>, <<3538, 3540>>, <<3542, 3542>>,
     <<3633, 3633>>, <<3636, 3642>>, <<3654, 3662>>, <<3761, 3761>>,
     <<3764, 3772>>, <<3782, 3782>>, <<3784, 3789>>, <<3864, 3865>>,
     <<3893, 3893>>, <<3895, 3895>>, <<3897, 3897>>, <<3953, 3966>>,
     <<3968, 3972>>, <<3974, 3975>>, <<3981, 3991>>, <<3993, 4028>>,
     <<4038, 4038>>, <<4141, 4144>>, <<4146, 4151>>, <<4153, 4154>>,
     <<4157, 4158>>, <<4184, 4185>>, <<4190, 4192>>, <<4209, 4212>>,
     <<4226, 4226>>, <<4229, 4230>>, <<4237, 4237>>, <<4253, 4253>>,
     <<4348, 4348>>, <<4957, 4959>>, <<5906, 5908>>, <<5938, 5939>>,
     <<5970, 5971>>, <<6002, 6003>>, <<6068, 6069>>, <<6071, 6077>>,
     <<6086, 6086>>, <<6089, 6099>>, <<6103, 6103>>, <<6109, 6109>>,
     <<6155, 6159>>, <<6211, 6211>>, <<6277, 6278>>, <<6313, 6313>>,
     <<6432, 6434>>, <<6439, 6440>>, <<6450, 6450>>, <<6457, 6459>>,
     <<6679, 6680>>, <<6683, 6683>>, <<6742, 6742>>, <<6744, 6750>>,
     <<6752, 6752>>, <<6754, 6754>>, <<6757, 6764>>, <<6771, 6780>>,
     <<6783, 6783>>, <<6823, 6823>>, <<6832, 6862>>, <<6912, 6915>>,
     <<6964, 6964>>, <<6966, 6970>>, <<6972, 6972>>, <<6978, 6978>>,
     <<7019, 7027>>, <<7040, 7041>>, <<7074, 7077>>, <<7080, 7081>>,
     <<7083, 7085>>, <<7142, 7142>>, <<7144, 7145>>, <<7149, 7149>>,
     <<7151, 7153>>, <<7212, 7219>>, <<7222, 7223>>, <<7288, 7293>>,
     <<7376, 7378>>, <<7380, 7392>>, <<7394, 7400>>, <<7405, 7405>>,
     <<7412, 7412>>, <<7416, 7417>>, <<7468, 7530>>, <<7544, 7544>>,
     <<7579, 7679>>, <<8125, 8125>>, <<8127, 8129>>, <<8141, 8143>>,
     <<8157, 8159>>, <<8173, 8175>>, <<8189, 8190>>, <<8203, 8207>>,
     <<8216, 8217>>, <<8228, 8228>>, <<8231, 8231>>, <<8234, 8238>>,
     <<8288, 8292>>, <<8294, 8303>>, <<8305, 8305>>, <<8319, 8319>>,
     <<8336, 8348>>, <<8400, 8432>>, <<11388, 11389>>, <<11503, 11505>>,
     <<11631, 11631>>, <<11647, 11647>>, <<11744, 11775>>, <<11823, 11823>>,
     <<12293, 12293>>, <<12330, 12333>>, <<12337, 12341>>, <<12347, 12347>>,
     <<12441, 12446>>, <<12540, 12542>>, <<40981, 40981>>, <<42232, 42237>>,
     <<42508, 42508>>, <<42607, 42610>>, <<42612, 42621>>, <<42623, 42623>>,
     <<42652, 42655>>, <<42736, 42737>>, <<42752, 42785>>, <<42864, 42864>>,
     <<42888, 42890>>, <<42994, 42996>>, <<43000, 43001>>, <<43010, 43010>>,
     <<43014, 43014>>, <<43019, 43019>>, <<43045, 43046>>, <<43052, 43052>>,
     <<43204, 43205>>, <<43232, 43249>>, <<43263, 43263>>, <<43302, 43309>>,
     <<43335, 43345>>, <<43392, 43394>>, <<43443, 43443>>, <<43446, 43449>>,
     <<43452, 43453>>, <<43471, 43471>>, <<43493, 43494>>, <<43561, 43566>>,
     <<43569, 43570>>, <<43573, 43574>>, <<43587, 43587>>, <<43596, 43596>>,
     <<43632, 43632>>, <<43644, 43644>>, <<43696, 43696>>, <<43698, 43700>>,
     <<43703, 43704>>, <<43710, 43711>>, <<43713, 43713>>, <<43741, 43741>>,
     <<43756, 43757>>, <<43763, 43764>>, <<43766, 43766>>, <<43867, 43871>>,
     <<43881, 43883>>, <<44005, 44005>>, <<44008, 44008>>, <<44013, 44013>>,
     <<64286, 64286>>, <<64434, 64450>>, <<65024, 65039>>, <<65043, 65043>>,
     <<65056, 65071>>, <<65106, 65106>>, <<65109, 65109>>, <<65279, 65279>>,
     <<65287, 65287>>, <<65294, 65294>>, <<65306, 65306>>, <<65342, 65342>>,
     <<65344, 65344>>, <<65392, 65392>>, <<65438, 65439>>, <<65507, 65507>>,
     <<65529, 65531>>, <<66045, 66045>>, <<66272, 66272>>, <<66422, 66426>>,
     <<67456, 67461>>, <<67463, 67504>>, <<67506, 67514>>, <<68097, 68099>>,
     <<68101, 68102>>, <<68108, 68111>>, <<68152, 68154>>, <<68159, 68159>>,
     <<68325, 68326>>, <<68900, 68903>>, <<69291, 69292>>, <<69446, 69456>>,
     <<69506, 69509>>, <<69633, 69633>>, <<69688, 69702>>, <<69744, 69744>>,
     <<69747, 69748>>, <<69759, 69761>>, <<69811, 69814>>, <<69817, 69818>>,
     <<69821, 69821>>, <<69826, 69826>>, <<69837, 69837>>, <<69888, 69890>>,
     <<69927, 69931>>, <<69933, 69940>>, <<70003, 70003>>, <<70016, 70017>>,
     <<70070, 70078>>, <<70089, 70092>>, <<70095, 70095>>, <<70191, 70193>>,
     <<70196, 70196>>, <<70198, 70199>>, <<70206, 70206>>, <<70367, 70367>>,
     <<70371, 70378>>, <<70400, 70401>>, <<70459, 70460>>, <<70464, 70464>>,
     <<70502, 70508>>, <<70512, 70516>>, <<70712, 70719>>, <<70722, 70724>>,
     <<70726, 70726>>, <<70750, 70750>>, <<70835, 70840>>, <<70842, 70842>>,
     <<70847, 70848>>, <<70850, 70851>>, <<71090, 71093>>, <<71100, 71101>>,
     <<71103, 71104>>, <<71132, 71133>>, <<71219, 71226>>, <<71229, 71229>>,
     <<71231, 71232>>, <<71339, 71339>>, <<71341, 71341>>, <<71344, 71349>>,
     <<71351, 71351>>, <<71453, 71455>>, <<71458, 71461>>, <<71463, 71467>>,
     <<71727, 71735>>, <<71737, 71738>>, <<71995, 71996>>, <<71998, 71998>>,
     <<72003, 72003>>, <<72148, 72151>>, <<72154, 72155>>, <<72160, 72160>>,
     <<72193, 72202>>, <<72243, 72248>>, <<72251, 72254>>, <<72263, 72263>>,
     <<72273, 72278>>, <<72281, 72283>>, <<72330, 72342>>, <<72344, 72345>>,
     <<72752, 72758>>, <<72760, 72765>>, <<72767, 72767>>, <<72850, 72871>>,
     <<72874, 72880>>, <<72882, 72883>>, <<72885, 72886>>, <<73009, 73014>>,
     <<73018, 73018>>, <<73020, 73021>>, <<73023, 73029>>, <<73031, 73031>>,
     <<73104, 73105>>, <<73109, 73109>>, <<73111, 73111>>, <<73459, 73460>>,
     <<78896, 78904>>, <<92912, 92916>>, <<92976, 92982>>, <<92992, 92995>>,
     <<94031, 94031>>, <<94095, 94111>>, <<94176, 94177>>, <<94179, 94180>>,
     <<110576, 110579>>, <<110581, 110587>>, <<110589, 110590>>,
     <<113821, 113822>>, <<113824, 113827>>, <<118528, 118573>>,
     <<118576, 118598>>, <<119143, 119145>>, <<119155, 119170>>,
     <<119173, 119179>>, <<119210, 119213>>, <<119362, 119364>>,
     <<121344, 121398>>, <<121403, 121452>>, <<121461, 121461>>,
     <<121476, 121476>>, <<121499, 121503>>, <<121505, 121519>>,
     <<122880, 122886>>, <<122888, 122904>>, <<122907, 122913>>,
     <<122915, 122916>>, <<122918, 122922>>, <<123184, 123197>>,
     <<123566, 123566>>, <<123628, 123631>>, <<125136, 125142>>,
     <<125252, 125259>>, <<127995, 127999>>, <<917505, 917505>>,
     <<917536, 917631>>, <<917760, 917999>>}

IsCaseIgnorable(c) == \E r \in CaseIgnorableRanges : r[1] <= c /\ c <= r[2]

\* the characters of the class \w: str.isalnum and the underscore
WordRanges ==
    {<<48, 57>>, <<65, 90>>, <<95, 95>>, <<97, 122>>, <<170, 170>>,
     <<178, 179>>, <<181, 181>>, <<185, 186>>, <<188, 190>>, <<192, 214>>,
     <<216, 246>>, <<248, 705>>, <<710, 721>>, <<736, 740>>, <<748, 748>>,
     <<750, 750>>, <<880, 884>>, <<886, 887>>, <<890, 893>>, <<895, 895>>,
     <<902, 902>>, <<904, 906>>, <<908, 908>>, <<910, 929>>, <<931, 1013>>,
     <<1015, 1153>>, <<1162, 1327>>, <<1329, 1366>>, <<1369, 1369>>,
     <<1376, 1416>>, <<1488, 1514>>, <<1519, 1522>>, <<1568, 1610>>,
     <<1632, 1641>>, <<1646, 1647>>, <<1649, 1747>>, <<1749, 1749>>,
     <<1765, 1766>>, <<1774, 1788>>, <<1791, 1791>>, <<1808, 1808>>,
     <<1810, 1839>>, <<1869, 1957>>, <<1969, 1969>>, <<1984, 2026>>,
     <<2036, 2037>>, <<2042, 2042>>, <<2048, 2069>>, <<2074, 2074>>,
     <<2084, 2084>>, <<2088, 2088>>, <<2112, 2136>>, <<2144, 2154>>,
     <<2160, 2183>>, <<2185, 2190>>, <<2208, 2249>>, <<2308, 2361>>,
     <<2365, 2365>>, <<2384, 2384>>, <<2392, 2401>>, <<2406, 2415>>,
     <<2417, 2432>>, <<2437, 2444>>, <<2447, 2448>>, <<2451, 2472>>,
     <<2474, 2480>>, <<2482, 2482>>, <<2486, 2489>>, <<2493, 2493>>,
     <<2510, 2510>>, <<2524, 2525>>, <<2527, 2529>>, <<2534, 2545>>,
     <<2548, 2553>>, <<2556, 2556>>, <<2565, 2570>>, <<2575, 2576>>,
     <<2579, 2600>>, <<2602, 2608>>, <<2610, 2611>>, <<2613, 2614>>,
     <<2616, 2617>>, <<2649, 2652>>, <<2654, 2654>>, <<2662, 2671>>,
     <<2674, 2676>>, <<2693, 2701>>, <<2703, 2705>>, <<2707, 2728>>,
     <<2730, 2736>>, <<2738, 2739>>, <<2741, 2745>>, <<2749, 2749>>,
     <<2768, 2768>>, <<2784, 2785>>, <<2790, 2799>>, <<2809, 2809>>,
     <<2821, 2828>>, <<2831, 2832>>, <<2835, 2856>>, <<2858, 2864>>,
     <<2866, 2867>>, <<2869, 2873>>, <<2877, 2877>>, <<2908, 2909>>,
     <<2911, 2913>>, <<2918, 2927>>, <<2929, 2935>>, <<2947, 2947>>,
     <<2949, 2954>>, <<2958, 2960>>, <<2962, 2965>>, <<2969, 2970>>,
     <<2972, 2972>>, <<2974, 2975>>, <<2979, 2980>>, <<2984, 2986>>,
     <<2990, 3001>>, <<3024, 3024>>, <<3046, 3058>>, <<3077, 3084>>,
     <<3086, 3088>>, <<3090, 3112>>, <<3114, 3129>>, <<3133, 3133>>,
     <<3160, 3162>>, <<3165, 3165>>, <<3168, 3169>>, <<3174, 3183>>,
     <<3192, 3198>>, <<3200, 3200>>, <<3205, 3212>>, <<3214, 3216>>,
     <<3218, 3240>>, <<3242, 3251>>, <<3253, 3257>>, <<3261, 3261>>,
     <<3293, 3294>>, <<3296, 3297>>, <<3302, 3311>>, <<3313, 3314>>,
     <<3332, 3340>>, <<3342, 3344>>, <<3346, 3386>>, <<3389, 3389>>,
     <<3406, 3406>>, <<3412, 3414>>, <<3416, 3425>>, <<3430, 3448>>,
     <<3450, 3455>>, <<3461, 3478>>, <<3482, 3505>>, <<3507, 3515>>,
     <<3517, 3517>>, <<3520, 3526>>, <<3558, 3567>>, <<3585, 3632>>,
     <<3634, 3635>>, <<3648, 3654>>, <<3664, 3673>>, <<3713, 3714>>,
     <<3716, 3716>>, <<3718, 3722>>, <<3724, 3747>>, <<3749, 3749>>,
     <<3751, 3760>>, <<3762, 3763>>, <<3773, 3773>>, <<3776, 3780>>,
     <<3782, 3782>>, <<3792, 3801>>, <<3804, 3807>>, <<3840, 3840>>,
     <<3872, 3891>>, <<3904, 3911>>, <<3913, 3948>>, <<3976, 3980>>,
     <<4096, 4138>>, <<4159, 4169>>, <<4176, 4181>>, <<4186, 4189>>,
     <<4193, 4193>>, <<4197, 4198>>, <<4206, 4208>>, <<4213, 4225>>,
     <<4238, 4238>>, <<4240, 4249>>, <<4256, 4293>>, <<4295, 4295>>,
     <<4301, 4301>>, <<4304, 4346>>, <<4348, 4680>>, <<4682, 4685>>,
     <<4688, 4694>>, <<4696, 4696>>, <<4698, 4701>>, <<4704, 4744>>,
     <<4746, 4749>>, <<4752, 4784>>, <<4786, 4789>>, <<4792, 4798>>,
     <<4800, 4800>>, <<4802, 4805>>, <<4808, 4822>>, <<4824, 4880>>,
     <<4882, 4885>>, <<4888, 4954>>, <<4969, 4988>>, <<4992, 5007>>,
     <<5024, 5109>>, <<5112, 5117>>, <<5121, 5740>>, <<5743, 5759>>,
     <<5761, 5786>>, <<5792, 5866>>, <<5870, 5880>>, <<5888, 5905>>,
     <<5919, 5937>>, <<5952, 5969>>, <<5984, 5996>>, <<5998, 6000>>,
     <<6016, 6067>>, <<6103, 6103>>, <<6108, 6108>>, <<6112, 6121>>,
     <<6128, 6137>>, <<6160, 6169>>, <<6176, 6264>>, <<6272, 6276>>,
     <<6279, 6312>>, <<6314, 6314>>, <<6320, 6389>>, <<6400, 6430>>,
     <<6470, 6509>>, <<6512, 6516>>, <<6528, 6571>>, <<6576, 6601>>,
     <<6608, 6618>>, <<6656, 6678>>, <<6688, 6740>>, <<6784, 6793>>,
     <<6800, 6809>>, <<6823, 6823>>, <<6917, 6963>>, <<6981, 6988>>,
     <<6992, 7001>>, <<7043, 7072>>, <<7086, 7141>>, <<7168, 7203>>,
     <<7232, 7241>>, <<7245, 7293>>, <<7296, 7304>>, <<7312, 7354>>,
     <<7357, 7359>>, <<7401, 7404>>, <<7406, 7411>>, <<7413, 7414>>,
     <<7418, 7418>>, <<7424, 7615>>, <<7680, 7957>>, <<7960, 7965>>,
     <<7968, 8005>>, <<8008, 8013>>, <<8016, 8023>>, <<8025, 8025>>,
     <<8027, 8027>>, <<8029, 8029>>, <<8031, 8061>>, <<8064, 8116>>,
     <<8118, 8124>>, <<8126, 8126>>, <<8130, 8132>>, <<8134, 8140>>,
     <<8144, 8147>>, <<8150, 8155>>, <<8160, 8172>>, <<8178, 8180>>,
     <<8182, 8188>>, <<8304, 8305>>, <<8308, 8313>>, <<8319, 8329>>,
     <<8336, 8348>>, <<8450, 8450>>, <<8455, 8455>>, <<8458, 8467>>,
     <<8469, 8469>>, <<8473, 8477>>, <<8484, 8484>>, <<8486, 8486>>,
     <<8488, 8488>>, <<8490, 8493>>, <<8495, 8505>>, <<8508, 8511>>,
     <<8517, 8521>>, <<8526, 8526>>, <<8528, 8585>>, <<9312, 9371>>,
     <<9450, 9471>>, <<10102, 10131>>, <<11264, 11492>>, <<11499, 11502>>,
     <<11506, 11507>>, <<11517, 11517>>, <<11520, 11557>>, <<11559, 11559>>,
     <<11565, 11565>>, <<11568, 11623>>, <<11631, 11631>>, <<11648, 11670>>,
     <<11680, 11686>>, <<11688, 11694>>, <<11696, 11702>>, <<11704, 11710>>,
     <<11712, 11718>>, <<11720, 11726>>, <<11728, 11734>>, <<11736, 11742>>,
     <<11823, 11823>>, <<12293, 12295>>, <<12321, 12329>>, <<12337, 12341>>,
     <<12344, 12348>>, <<12353, 12438>>, <<12445, 12447>>, <<12449, 12538>>,
     <<12540, 12543>>, <<12549, 12591>>, <<12593, 12686>>, <<12690, 12693>>,
     <<12704, 12735>>, <<12784, 12799>>, <<12832, 12841>>, <<12872, 12879>>,
     <<12881, 12895>>, <<12928, 12937>>, <<12977, 12991>>, <<13312, 19903>>,
     <<19968, 42124>>, <<42192, 42237>>, <<42240, 42508>>, <<42512, 42539>>,
     <<42560, 42606>>, <<42623, 42653>>, <<42656, 42735>>, <<42775, 42783>>,
     <<42786, 42888>>, <<42891, 42954>>, <<42960, 42961>>, <<42963, 42963>>,
     <<42965, 42969>>, <<42994, 43009>>, <<43011, 43013>>, <<43015, 43018>>,
     <<43020, 43042>>, <<43056, 43061>>, <<43072, 43123>>, <<43138, 43187>>,
     <<43216, 43225>>, <<43250, 43255>>, <<43259, 43259>>, <<43261, 43262>>,
     <<43264, 43301>>, <<43312, 43334>>, <<43360, 43388>>, <<43396, 43442>>,
     <<43471, 43481>>, <<43488, 43492>>, <<43494, 43518>>, <<43520, 43560>>,
     <<43584, 43586>>, <<43588, 43595>>, <<43600, 43609>>, <<43616, 43638>>,
     <<43642, 43642>>, <<43646, 43695>>, <<43697, 43697>>, <<43701, 43702>>,
     <<43705, 43709>>, <<43712, 43712>>, <<43714, 43714>>, <<43739, 43741>>,
     <<43744, 43754>>, <<43762, 43764>>, <<43777, 43782>>, <<43785, 43790>>,
     <<43793, 43798>>, <<43808, 43814>>, <<43816, 43822>>, <<43824, 43866>>,
     <<43868, 43881>>, <<43888, 44002>>, <<44016, 44025>>, <<44032, 55203>>,
     <<55216, 55238>>, <<55243, 55291>>, <<63744, 64109>>, <<64112, 64217>>,
     <<64256, 64262>>, <<64275, 64279>>, <<64285, 64285>>, <<64287, 64296>>,
     <<64298, 64310>>, <<64312, 64316>>, <<64318, 64318>>, <<64320, 64321>>,
     <<64323, 64324>>, <<64326, 64433>>, <<64467, 64829>>, <<64848, 64911>>,
     <<64914, 64967>>, <<65008, 65019>>, <<65136, 65140>>, <<65142, 65276>>,
     <<65296, 65305>>, <<65313, 65338>>, <<65345, 65370>>, <<65382, 65470>>,
     <<65474, 65479>>, <<65482, 65487>>, <<65490, 65495>>, <<65498, 65500>>,
     <<65536, 65547>>, <<65549, 65574>>, <<65576, 65594>>, <<65596, 65597>>,
     <<65599, 65613>>, <<65616, 65629>>, <<65664, 65786>>, <<65799, 65843>>,
     <<65856, 65912>>, <<65930, 65931>>, <<66176, 66204>>, <<66208, 66256>>,
     <<66273, 66299>>, <<66304, 66339>>, <<66349, 66378>>, <<66384, 66421>>,
     <<66432, 66461>>, <<66464, 66499>>, <<66504, 66511>>, <<66513, 66517>>,
     <<66560, 66717>>, <<66720, 66729>>, <<66736, 66771>>, <<66776, 66811>>,
     <<66816, 66855>>, <<66864, 66915>>, <<66928, 66938>>, <<66940, 66954>>,
     <<66956, 66962>>, <<66964, 66965>>, <<66967, 66977>>, <<66979, 66993>>,
     <<66995, 67001>>, <<67003, 67004>>, <<67072, 67382>>, <<67392, 67413>>,
     <<67424, 67431>>, <<67456, 67461>>, <<67463, 67504>>, <<67506, 67514>>,
     <<67584, 67589>>, <<67592, 67592>>, <<67594, 67637>>, <<67639, 67640>>,
     <<67644, 67644>>, <<67647, 67669>>, <<67672, 67702>>, <<67705, 67742>>,
     <<67751, 67759>>, <<67808, 67826>>, <<67828, 67829>>, <<67835, 67867>>,
     <<67872, 67897>>, <<67968, 68023>>, <<68028, 68047>>, <<68050, 68096>>,
     <<68112, 68115>>, <<68117, 68119>>, <<68121, 68149>>, <<68160, 68168>>,
     <<68192, 68222>>, <<68224, 68255>>, <<68288, 68295>>, <<68297, 68324>>,
     <<68331, 68335>>, <<68352, 68405>>, <<68416, 68437>>, <<68440, 68466>>,
     <<68472, 68497>>, <<68521, 68527>>, <<68608, 68680>>, <<68736, 68786>>,
     <<68800, 68850>>, <<68858, 68899>>, <<68912, 68921>>, <<69216, 69246>>,
     <<69248, 69289>>, <<69296, 69297>>, <<69376, 69415>>, <<69424, 69445>>,
     <<69457, 69460>>, <<69488, 69505>>, <<69552, 69579>>, <<69600, 69622>>,
     <<69635, 69687>>, <<69714, 69743>>, <<69745, 69746>>, <<69749, 69749>>,
     <<69763, 69807>>, <<69840, 69864>>, <<69872, 69881>>, <<69891, 69926>>,
     <<69942, 69951>>, <<69956, 69956>>, <<69959, 69959>>, <<69968, 70002>>,
     <<70006, 70006>>, <<70019, 70066>>, <<70081, 70084>>, <<70096, 70106>>,
     <<70108, 70108>>, <<70113, 70132>>, <<70144, 70161>>, <<70163, 70187>>,
     <<70272, 70278>>, <<70280, 70280>>, <<70282, 70285>>, <<70287, 70301>>,
     <<70303, 70312>>, <<70320, 70366>>, <<70384, 70393>>, <<70405, 70412>>,
     <<70415, 70416>>, <<70419, 70440>>, <<70442, 70448>>, <<70450, 70451>>,
     <<70453, 70457>>, <<70461, 70461>>, <<70480, 70480>>, <<70493, 70497>>,
     <<70656, 70708>>, <<70727, 70730>>, <<70736, 70745>>, <<70751, 70753>>,
     <<70784, 70831>>, <<70852, 70853>>, <<70855, 70855>>, <<70864, 70873>>,
     <<71040, 71086>>, <<71128, 71131>>, <<71168, 71215>>, <<71236, 71236>>,
     <<71248, 71257>>, <<71296, 71338>>, <<71352, 71352>>, <<71360, 71369>>,
     <<71424, 71450>>, <<71472, 71483>>, <<71488, 71494>>, <<71680, 71723>>,
     <<71840, 71922>>, <<71935, 71942>>, <<71945, 71945>>, <<71948, 71955>>,
     <<71957, 71958>>, <<71960, 71983>>, <<71999, 71999>>, <<72001, 72001>>,
     <<72016, 72025>>, <<72096, 72103>>, <<72106, 72144>>, <<72161, 72161>>,
     <<72163, 72163>>, <<72192, 72192>>, <<72203, 72242>>, <<72250, 72250>>,
     <<72272, 72272>>, <<72284, 72329>>, <<72349, 72349>>, <<72368, 72440>>,
     <<72704, 72712>>, <<72714, 72750>>, <<72768, 72768>>, <<72784, 72812>>,
     <<72818, 72847>>, <<72960, 72966>>, <<72968, 72969>>, <<72971, 73008>>,
     <<73030, 73030>>, <<73040, 73049>>, <<73056, 73061>>, <<73063, 73064>>,
     <<73066, 73097>>, <<73112, 73112>>, <<73120, 73129>>, <<73440, 73458>>,
     <<73648, 73648>>, <<73664, 73684>>, <<73728, 74649>>, <<74752, 74862>>,
     <<74880, 75075>>, <<77712, 77808>>, <<77824, 78894>>, <<82944, 83526>>,
     <<92160, 92728>>, <<92736, 92766>>, <<92768, 92777>>, <<92784, 92862>>,
     <<92864, 92873>>, <<92880, 92909>>, <<92928, 92975>>, <<92992, 92995>>,
     <<93008, 93017>>, <<93019, 93025>>, <<93027, 93047>>, <<93053, 93071>>,
     <<93760, 93846>>, <<93952, 94026>>, <<94032, 94032>>, <<94099, 94111>>,
     <<94176, 94177>>, <<94179, 94179>>, <<94208, 100343>>,
     <<100352, 101589>>, <<101632, 101640>>, <<110576, 110579>>,
     <<110581, 110587>>, <<110589, 110590>>, <<110592, 110882>>,
     <<110928, 110930>>, <<110948, 110951>>, <<110960, 111355>>,
     <<113664, 113770>>, <<113776, 113788>>, <<113792, 113800>>,
     <<113808, 113817>>, <<119520, 119539>>, <<119648, 119672>>,
     <<119808, 119892>>, <<119894, 119964>>, <<119966, 119967>>,
     <<119970, 119970>>, <<119973, 119974>>, <<119977, 119980>>,
     <<119982, 119993>>, <<119995, 119995>>, <<119997, 120003>>,
     <<120005, 120069>>, <<120071, 120074>>, <<120077, 120084>>,
     <<120086, 120092>>, <<120094, 120121>>, <<120123, 120126>>,
     <<120128, 120132>>, <<120134, 120134>>, <<120138, 120144>>,
     <<120146, 120485>>, <<120488, 120512>>, <<120514, 120538>>,
     <<120540, 120570>>, <<120572, 120596>>, <<120598, 120628>>,
     <<120630, 120654>>, <<120656, 120686>>, <<120688, 120712>>,
     <<120714, 120744>>, <<120746, 120770>>, <<120772, 120779>>,
     <<120782, 120831>>, <<122624, 122654>>, <<123136, 123180>>,
     <<123191, 123197>>, <<123200, 123209>>, <<123214, 123214>>,
     <<123536, 123565>>, <<123584, 123627>>, <<123632, 123641>>,
     <<124896, 124902>>, <<124904, 124907>>, <<124909, 124910>>,
     <<124912, 124926>>, <<124928, 125124>>, <<125127, 125135>>,
     <<125184, 125251>>, <<125259, 125259>>, <<125264, 125273>>,
     <<126065, 126123>>, <<126125, 126127>>, <<126129, 126132>>,
     <<126209, 126253>>, <<126255, 126269>>, <<126464, 126467>>,
     <<126469, 126495>>, <<126497, 126498>>, <<126500, 126500>>,
     <<126503, 126503>>, <<126505, 126514>>, <<126516, 126519>>,
     <<126521, 126521>>, <<126523, 126523>>, <<126530, 126530>>,
     <<126535, 126535>>, <<126537, 126537>>, <<126539, 126539>>,
     <<126541, 126543>>, <<126545, 126546>>, <<126548, 126548>>,
     <<126551, 126551>>, <<126553, 126553>>, <<126555, 126555>>,
     <<126557, 126557>>, <<126559, 126559>>, <<126561, 126562>>,
     <<126564, 126564>>, <<126567, 126570>>, <<126572, 126578>>,
     <<126580, 126583>>, <<126585, 126588>>, <<126590, 126590>>,
     <<126592, 126601>>, <<126603, 126619>>, <<126625, 126627>>,
     <<126629, 126633>>, <<126635, 126651>>, <<127232, 127244>>,
     <<130032, 130041>>, <<131072, 173791>>, <<173824, 177976>>,
     <<177984, 178205>>, <<178208, 183969>>, <<183984, 191456>>,
     <<194560, 195101>>, <<196608, 201546>>}

IsWordChar(c) == \E r \in WordRanges : r[1] <= c /\ c <= r[2]

\* whether the capital sigma at position i of s ends a word: the nearest
\* character before it that is not case-ignorable is cased, and the nearest
\* one after it, if there is one, is not
FinalSigma(s, i) ==
    /\ \E j \in 1..(i - 1) :
          /\ IsCased(s[j]) /\ ~IsCaseIgnorable(s[j])
          /\ \A k \in (j + 1)..(i - 1) : IsCaseIgnorable(s[k])
    /\ ~\E j \in (i + 1)..Len(s) :
          /\ IsCased(s[j]) /\ ~IsCaseIgnorable(s[j])
          /\ \A k \in (i + 1)..(j - 1) : IsCaseIgnorable(s[k])

\* str.lower of s[i..j] within s, one half after the other: U+03A3 becomes
\* U+03C2 at the end of a word and U+03C3 elsewhere, U+0130 becomes two
\* characters, every other character its lower-case character
RECURSIVE LowerSpan(_, _, _)
LowerSpan(s, i, j) ==
    IF i > j THEN <<>>
    ELSE IF i < j
    THEN LowerSpan(s, i, (i + j) \div 2) \o LowerSpan(s, (i + j) \div 2 + 1, j)
    ELSE IF s[i] = 931 THEN (IF FinalSigma(s, i) THEN <<962>> ELSE <<963>>)
    ELSE IF s[i] = 304 THEN <<105, 775>>
    ELSE <<LowerChar(s[i])>>

\* str.lower
Lower(s) == LowerSpan(s, 1, Len(s))

\* whether character c matches the literal character p of a pattern
\* compiled with re.IGNORECASE: their lower-case characters are the same, or
\* c is the dotless i (U+0131) for an i, the long s (U+017F) for an s
IgnoreCaseMatch(c, p) ==
    \/ LowerChar(c) = LowerChar(p)
    \/ LowerChar(p) = 105 /\ c = 305
    \/ LowerChar(p) = 115 /\ c = 383

RECURSIVE LStrip(_)
LStrip(s) == IF s /= <<>> /\ IsSpace(Head(s)) THEN LStrip(Tail(s)) ELSE s

RECURSIVE RStrip(_)
RStrip(s) ==
    IF s /= <<>> /\ IsSpace(s[Len(s)]) THEN RStrip(SubSeq(s, 1, Len(s) - 1)) ELSE s

\* str.strip
Strip(s) == RStrip(LStrip(s))

RECURSIVE FloatLStrip(_)
FloatLStrip(s) ==
    IF s /= <<>> /\ IsFloatSpace(Head(s)) THEN FloatLStrip(Tail(s)) ELSE s

RECURSIVE FloatRStrip(_)
FloatRStrip(s) ==
    IF s /= <<>> /\ IsFloatSpace(s[Len(s)])
    THEN FloatRStrip(SubSeq(s, 1, Len(s) - 1))
    ELSE s

\* the text float() parses: the white space around the number skipped
FloatStrip(s) == FloatRStrip(FloatLStrip(s))

(***************************************************************************)
(* Python values.  Every value is a record [k, m, b, e, s]:                *)
(*   k = "None"    None                                                    *)
(*   k = "float"   the finite double m * b * 2^e: m is the sign (1 or -1), *)
(*                 b the integer mantissa and e the binary exponent, as    *)
(*                 IEEE 754 keeps them: 2^52 <= b < 2^53 and               *)
(*                 -1074 <= e <= 971 for a normal number, b < 2^52 and     *)
(*                 e = -1074 for a subnormal one and for 0.0 and -0.0      *)
(*   k = "nan"     float('nan')                                            *)
(*   k = "inf"     float('inf') (m = 1) or -inf (m = -1)                   *)
(*   k = "bool"    True (m = 1) or False (m = 0)                           *)
(*   k = "str"     the text s                                              *)
(*   k = "list"    the list d, a sequence of values (JSON bodies only)     *)
(*   k = "dict"    the dict d, a function from keys to values              *)
(*                 (JSON bodies only)                                      *)
(* The mantissa b is a natural number written as the sequence of its       *)
(* base-8192 limbs, the least significant first, without leading zero      *)
(* limbs (0 is <<>>): 30.0 is 15 * 2^48 * 2^-48, b = <<0, 0, 0, 3840>>.    *)
(***************************************************************************)
\* the least exponent of a double's integer mantissa, and the greatest
MinExp == -1074

MaxExp == 971

None == [k |-> "None", m |-> 0, b |-> <<>>, e |-> 0, s |-> <<>>]

NaN == [k |-> "nan", m |-> 0, b |-> <<>>, e |-> 0, s |-> <<>>]

Inf(sign) == [k |-> "inf", m |-> sign, b |-> <<>>, e |-> 0, s |-> <<>>]

Bool(t) == [k |-> "bool", m |-> IF t THEN 1 ELSE 0, b |-> <<>>, e |-> 0, s |-> <<>>]

Str(t) == [k |-> "str", m |-> 0, b |-> <<>>, e |-> 0, s |-> t]

\* a list and a dict decoded from the JSON body of a /scrape request
List(d) == [k |-> "list", d |-> d]

Dict(d) == [k |-> "dict", d |-> d]

\* 0.0 (sign = 1) and -0.0 (sign = -1)
SignedZero(sign) == [k |-> "float", m |-> sign, b |-> <<>>, e |-> MinExp, s |-> <<>>]

Zero == SignedZero(1)

Max(a, b) == IF a >= b THEN a ELSE b

\* ----- natural numbers of any size --------------------------------------
\* a limb holds LimbBits bits
LimbBits == 13

Base == 8192

RECURSIVE Pow2(_)
Pow2(n) == IF n = 0 THEN 1 ELSE 2 * Pow2(n - 1)

RECURSIVE Pow10(_)
Pow10(n) == IF n = 0 THEN 1 ELSE 10 * Pow10(n - 1)

\* the greatest n for which multiplying or dividing a number by 10^n is
\* done limb by limb within the range of the integers
MaxPow10 == 5

Limb(x, i) == IF i <= Len(x) THEN x[i] ELSE 0

RECURSIVE BNTrim(_)
BNTrim(x) ==
    IF x /= <<>> /\ x[Len(x)] = 0 THEN BNTrim(SubSeq(x, 1, Len(x) - 1)) ELSE x

RECURSIVE IntLimbs(_)
IntLimbs(n) == IF n = 0 THEN <<>> ELSE <<n % Base>> \o IntLimbs(n \div Base)

RECURSIVE BNCmpAt(_, _, _)
BNCmpAt(x, y, i) ==
    IF i = 0 THEN 0
    ELSE IF x[i] /= y[i] THEN (IF x[i] < y[i] THEN -1 ELSE 1)
    ELSE BNCmpAt(x, y, i - 1)

\* -1, 0 or 1 as x < y, x = y or x > y
BNCmp(x, y) ==
    IF Len(x) /= Len(y) THEN (IF Len(x) < Len(y) THEN -1 ELSE 1)
    ELSE BNCmpAt(x, y, Len(x))

\* one limb more of x * f: st = [i, c, y], the next limb, the carry and
\* the limbs of the result so far
MulLimb(x, f, st) ==
    [i |-> st.i + 1,
     c |-> (x[st.i] * f + st.c) \div Base,
     y |-> Append(st.y, (x[st.i] * f + st.c) % Base)]

\* n limbs more, in two halves
RECURSIVE MulLimbs(_, _, _, _)
MulLimbs(x, f, st, n) ==
    IF n = 0 \/ st.i > Len(x) THEN st
    ELSE IF n = 1 THEN MulLimb(x, f, st)
    ELSE MulLimbs(x, f, MulLimbs(x, f, st, n \div 2), n - n \div 2)

\* the limbs of the result, the last carry on top
WithCarry(st) == st.y \o IntLimbs(st.c)

\* x * f + c for a factor f and an addend c of at most 10^MaxPow10
MulSmall(x, f, c) ==
    WithCarry(MulLimbs(x, f, [i |-> 1, c |-> c, y |-> <<>>], Len(x)))

\* one limb more of x \div d: st = [i, r, y], the next limb (from the top),
\* the remainder and the limbs of the quotient so far
DivLimb(x, d, st) ==
    [i |-> st.i - 1,
     r |-> (st.r * Base + x[st.i]) % d,
     y |-> <<(st.r * Base + x[st.i]) \div d>> \o st.y]

\* n limbs more, in two halves
RECURSIVE DivLimbs(_, _, _, _)
DivLimbs(x, d, st, n) ==
    IF n = 0 \/ st.i = 0 THEN st
    ELSE IF n = 1 THEN DivLimb(x, d, st)
    ELSE DivLimbs(x, d, DivLimbs(x, d, st, n \div 2), n - n \div 2)

Quotient(st) == [q |-> BNTrim(st.y), r |-> st.r]

\* [q, r]: the quotient and the remainder of x by d, d at most 10^MaxPow10
ShortDiv(x, d) ==
    Quotient(DivLimbs(x, d, [i |-> Len(x), r |-> 0, y |-> <<>>], Len(x)))

\* x * 10^n, in two halves
RECURSIVE MulPow10(_, _)
MulPow10(x, n) ==
    IF x = <<>> THEN <<>>
    ELSE IF n <= MaxPow10 THEN MulSmall(x, Pow10(n), 0)
    ELSE MulPow10(MulPow10(x, n \div 2), n - n \div 2)

\* the quotient st.q divided by d, the flag set when a remainder is lost
DivStep(st, d) == [q |-> d.q, sticky |-> st.sticky \/ d.r /= 0]

\* [q, sticky]: st.q \div 10^n, and whether st.q / 10^n has a fractional
\* part (or st.sticky said its dividend had one)
RECURSIVE DivPow10(_, _)
DivPow10(st, n) ==
    IF st.q = <<>> THEN st
    ELSE IF n <= MaxPow10 THEN DivStep(st, ShortDiv(st.q, Pow10(n)))
    ELSE DivPow10(DivPow10(st, n \div 2), n - n \div 2)

RECURSIVE SmallBitLen(_)
SmallBitLen(n) == IF n = 0 THEN 0 ELSE 1 + SmallBitLen(n \div 2)

\* the number of bits of x
BitLen(x) ==
    IF x = <<>> THEN 0 ELSE LimbBits * (Len(x) - 1) + SmallBitLen(x[Len(x)])

\* x * 2^n
ShiftLeft(x, n) ==
    IF x = <<>> THEN <<>>
    ELSE (<<>> \o [i \in 1..(n \div LimbBits) |-> 0])
         \o MulSmall(x, Pow2(n % LimbBits), 0)

\* x \div 2^n
ShiftRight(x, n) ==
    IF n \div LimbBits >= Len(x) THEN <<>>
    ELSE ShortDiv(SubSeq(x, n \div LimbBits + 1, Len(x)), Pow2(n % LimbBits)).q

\* bit i of x (bit 0 is the lowest)
Bit(x, i) == (Limb(x, i \div LimbBits + 1) \div Pow2(i % LimbBits)) % 2

\* x % 2^n = 0
LowBitsZero(x, n) ==
    /\ \A i \in 1..(n \div LimbBits) : Limb(x, i) = 0
    /\ Limb(x, n \div LimbBits + 1) % Pow2(n % LimbBits) = 0

\* ----- the double nearest to a number -----------------------------------
\* the double sign * q * 2^e of a rounded mantissa q (at most 2^53); in
\* limbs 2^53 is <<0, 0, 0, 0, 2>> and 2^52 is <<0, 0, 0, 0, 1>>
Finite(sign, q, e) ==
    IF q = <<>> THEN SignedZero(sign)
    ELSE IF q = <<0, 0, 0, 0, 2>>
    THEN (IF e + 1 > MaxExp THEN Inf(sign)
          ELSE [k |-> "float", m |-> sign, b |-> <<0, 0, 0, 0, 1>>, e |-> e + 1,
                s |-> <<>>])
    ELSE IF e > MaxExp THEN Inf(sign)
    ELSE [k |-> "float", m |-> sign, b |-> q, e |-> e, s |-> <<>>]

\* round to nearest, ties to even, at bit n of q: the bits below it are
\* dropped; sticky says that the number is a little more than q
RoundUp(q, sticky, n) ==
    /\ Bit(q, n - 1) = 1
    /\ (sticky \/ ~LowBitsZero(q, n - 1) \/ Bit(q, n) = 1)

\* the double nearest to sign * (q + f) * 2^e, 0 <= f < 1 and f > 0 iff
\* sticky, rounded at bit n of q (for n <= 0, q gets -n more low bits and
\* sticky is FALSE)
RoundAt(sign, q, sticky, e, n) ==
    IF n <= 0 THEN Finite(sign, ShiftLeft(q, -n), e + n)
    ELSE IF RoundUp(q, sticky, n)
    THEN Finite(sign, MulSmall(ShiftRight(q, n), 1, 1), e + n)
    ELSE Finite(sign, ShiftRight(q, n), e + n)

\* the double nearest to sign * (q + f) * 2^e: the mantissa keeps 53 bits,
\* fewer when the exponent would fall below MinExp
Nearest(sign, q, sticky, e) ==
    RoundAt(sign, q, sticky, e, Max(BitLen(q) - 53, MinExp - e))

\* the s for which (x * 2^s) \div 10^n has at least 56 bits; 10^n has at
\* most (n * 3322) \div 1000 + 1 bits
QuotientShift(x, n) == Max(0, 56 + (n * 3322) \div 1000 + 1 - BitLen(x))

\* the double nearest to sign * st.q * 2^e (a little more when st.sticky)
NearestOf(sign, st, e) == Nearest(sign, st.q, st.sticky, e)

\* the double nearest to sign * x / 10^n, from the quotient of x * 2^s
NearestQuotient(sign, x, n, s) ==
    NearestOf(sign, DivPow10([q |-> ShiftLeft(x, s), sticky |-> FALSE], n), -s)

\* the double nearest to sign * x * 10^e10
NearestDouble(sign, x, e10) ==
    IF x = <<>> THEN SignedZero(sign)
    ELSE IF e10 >= 0 THEN Nearest(sign, MulPow10(x, e10), FALSE, 0)
    ELSE NearestQuotient(sign, x, -e10, QuotientShift(x, -e10))

\* an int used where a float is expected (the literals 0, 500, 1990, ...)
FromInt(n) == NearestDouble(IF n < 0 THEN -1 ELSE 1, IntLimbs(IF n < 0 THEN -n ELSE n), 0)

\* bool(v): the truth value Python gives v in `if v` and `a and b`
Truthy(v) ==
    CASE v.k = "None" -> FALSE
      [] v.k = "float" -> v.b /= <<>>
      [] v.k = "nan" -> TRUE
      [] v.k = "inf" -> TRUE
      [] v.k = "bool" -> v.m = 1
      [] v.k = "str" -> v.s /= <<>>
      [] v.k \in {"list", "dict"} -> DOMAIN v.d /= {}

\* |a| < |b| for two finite doubles
MagLt(a, b) == a.e < b.e \/ (a.e = b.e /\ BNCmp(a.b, b.b) < 0)

\* a < b on floats (every comparison with nan is False; 0.0 = -0.0)
FloatLt(a, b) ==
    CASE a.k = "nan" \/ b.k = "nan" -> FALSE
      [] a.k = "inf" /\ a.m = 1 -> FALSE
      [] a.k = "inf" /\ a.m = -1 -> ~(b.k = "inf" /\ b.m = -1)
      [] a.k = "float" /\ b.k = "inf" -> b.m = 1
      [] a.k = "float" /\ b.k = "float" ->
            IF a.b = <<>> THEN b.b /= <<>> /\ b.m = 1
            ELSE IF b.b = <<>> THEN a.m = -1
            ELSE IF a.m /= b.m THEN a.m = -1
            ELSE IF a.m = 1 THEN MagLt(a, b)
            ELSE MagLt(b, a)

\* a > b
FloatGt(a, b) == FloatLt(b, a)

\* a >= b  (Python: False when either is nan)
FloatGe(a, b) == a.k /= "nan" /\ b.k /= "nan" /\ ~FloatLt(a, b)

(***************************************************************************)
(* float(text): Python's conversion of a string to a float.                *)
(*   skip white space; optional sign; then inf | infinity | nan (any       *)
(*   case) or  digits [. [digits]] [exponent]  |  . digits [exponent],     *)
(*   where digits may hold single underscores between digits.              *)
(* The result is [ok, v]; ok = FALSE stands for ValueError.                *)
(***************************************************************************)
\* the least element of a set of integers that is not empty
Least(S) == CHOOSE j \in S : \A k \in S : j <= k

\* position j of s goes on a digit part: a digit, or an underscore (95)
\* between two digits
InDigits(s, j) ==
    \/ IsDecimal(s[j])
    \/ /\ s[j] = 95
       /\ j > 1 /\ IsDecimal(s[j - 1])
       /\ j < Len(s) /\ IsDecimal(s[j + 1])

\* end (exclusive) of the longest digit part of s starting at position i
ScanDigits(s, i) ==
    IF i > Len(s) \/ ~IsDecimal(s[i]) THEN i
    ELSE Least({j \in i..(Len(s) + 1) : j > Len(s) \/ ~InDigits(s, j)})

\* the decimal digits of s[i .. j-1] as numbers, underscores dropped
DigitsOf(s, i, j) ==
    <<>> \o [n \in 1..Len(SelectSeq(SubSeq(s, i, j - 1), IsDecimal)) |->
                DecimalVal(SelectSeq(SubSeq(s, i, j - 1), IsDecimal)[n])]

StripLeadingZeros(ds) ==
    IF \A j \in 1..Len(ds) : ds[j] = 0 THEN <<>>
    ELSE SubSeq(ds, Least({j \in 1..Len(ds) : ds[j] /= 0}), Len(ds))

\* one digit more: st = [i, x], the next digit and the number so far
NextDigit(ds, st) == [i |-> st.i + 1, x |-> MulSmall(st.x, 10, ds[st.i])]

\* n digits more, in two halves
RECURSIVE NextDigits(_, _, _)
NextDigits(ds, st, n) ==
    IF n = 0 \/ st.i > Len(ds) THEN st
    ELSE IF n = 1 THEN NextDigit(ds, st)
    ELSE NextDigits(ds, NextDigits(ds, st, n \div 2), n - n \div 2)

\* the number written by the decimal digits ds (most significant first)
BigOfDigits(ds) == BNTrim(NextDigits(ds, [i |-> 1, x |-> <<>>], Len(ds)).x)

\* an exponent at or beyond 100000000 is as good as any larger one for a
\* text shorter than that many characters
RECURSIVE ExpValueAcc(_, _, _)
ExpValueAcc(ds, i, acc) ==
    IF i > Len(ds) \/ acc >= 100000000 THEN acc
    ELSE ExpValueAcc(ds, i + 1, 10 * acc + ds[i])

\* the value of the exponent's digits, saturated
ExpValue(ds) == ExpValueAcc(ds, 1, 0)

\* the double nearest to sign * ds * 10^e10 for digits ds without leading
\* zero: 10^309 is beyond the largest double (1.7976931348623157e308) and
\* 10^-324 below half the least one (2.4703282292062327e-324)
DoubleOf(sign, ds, e10) ==
    IF ds = <<>> THEN SignedZero(sign)
    ELSE IF Len(ds) + e10 > 309 THEN Inf(sign)
    ELSE IF Len(ds) + e10 <= -324 THEN SignedZero(sign)
    ELSE NearestDouble(sign, BigOfDigits(ds), e10)

ValueError == [ok |-> FALSE, v |-> None]

\* the number is complete: its parts are s[1 .. intEnd-1], the fraction
\* s[fracStart .. fracEnd-1] and the exponent s[expStart .. expEnd-1]
\* (expStart = 0 without an exponent)
FinishNumber(sign, s, intEnd, fracStart, fracEnd, expSign, expStart, expEnd) ==
    IF (intEnd > 1 \/ fracEnd > fracStart)
       /\ (expStart > 0 => expEnd > expStart)
       /\ expEnd = Len(s) + 1
    THEN [ok |-> TRUE,
          v |-> DoubleOf(sign,
                         StripLeadingZeros(DigitsOf(s, 1, intEnd)
                                           \o DigitsOf(s, fracStart, fracEnd)),
                         (IF expStart > 0
                          THEN expSign * ExpValue(DigitsOf(s, expStart, expEnd))
                          ELSE 0) - Len(DigitsOf(s, fracStart, fracEnd)))]
    ELSE ValueError

\* the optional exponent, starting at position fracEnd: e or E (101, 69),
\* then an optional sign + or - (43, 45)
ParseExponent(sign, s, intEnd, fracStart, fracEnd) ==
    IF fracEnd <= Len(s) /\ s[fracEnd] \in {101, 69}
    THEN IF fracEnd + 1 <= Len(s) /\ s[fracEnd + 1] \in {43, 45}
         THEN FinishNumber(sign, s, intEnd, fracStart, fracEnd,
                           IF s[fracEnd + 1] = 45 THEN -1 ELSE 1,
                           fracEnd + 2, ScanDigits(s, fracEnd + 2))
         ELSE FinishNumber(sign, s, intEnd, fracStart, fracEnd, 1,
                           fracEnd + 1, ScanDigits(s, fracEnd + 1))
    ELSE FinishNumber(sign, s, intEnd, fracStart, fracEnd, 1, 0, fracEnd)

\* the optional fraction, starting at position intEnd with a point (46)
ParseFraction(sign, s, intEnd) ==
    IF intEnd <= Len(s) /\ s[intEnd] = 46
    THEN ParseExponent(sign, s, intEnd, intEnd + 1, ScanDigits(s, intEnd + 1))
    ELSE ParseExponent(sign, s, intEnd, intEnd, intEnd)

\* s is the word w (of lower-case ASCII letters) in any case of A to Z
IsWord(s, w) ==
    /\ Len(s) = Len(w)
    /\ \A i \in 1..Len(w) :
          s[i] = w[i] \/ (s[i] \in 65..90 /\ s[i] + 32 = w[i])

ParseUnsigned(sign, s) ==
    IF IsWord(s, Text("nan")) THEN [ok |-> TRUE, v |-> NaN]
    ELSE IF IsWord(s, Text("inf"))
            \/ IsWord(s, Text("infinity"))
    THEN [ok |-> TRUE, v |-> Inf(sign)]
    ELSE ParseFraction(sign, s, ScanDigits(s, 1))

\* the optional sign - or + (45, 43) and the number
SignedFloat(t) ==
    IF t = <<>> THEN ValueError
    ELSE IF Head(t) = 45 THEN ParseUnsigned(-1, Tail(t))
    ELSE IF Head(t) = 43 THEN ParseUnsigned(1, Tail(t))
    ELSE ParseUnsigned(1, t)

ParseFloat(text) == SignedFloat(FloatStrip(text))


(***************************************************************************)
(* DynamicCriteriaReader                                                   *)
(***************************************************************************)
numeric_fields ==
    {"Min CAGR (%)", "Min Sharpe", "Max Drawdown (%)", "Min Win Rate (%)",
     "Min Trades Per Year", "Backtest Start Year", "Backtest End Year"}

boolean_fields == {"YouTube Enabled", "Option Alpha Enabled", "QuantConnect Enabled"}

string_fields ==
    {"YouTube Keywords", "YouTube Language", "Option Alpha Filter",
     "QuantConnect Filter"}

\* dict.get(key, default); dict.get(key) is dict.get(key, None)
GetOr(d, key, default) == IF key \in DOMAIN d THEN d[key] ELSE default

\* the rows of values the loop of read_settings_tab takes: the first row
\* (the header) is skipped, and so is a row of fewer than two cells
DataRows(values) == {i \in 2..Len(values) : Len(values[i]) >= 2}

\* the last row that assigns settings[key]
LastRow(values, key) ==
    CHOOSE i \in DataRows(values) :
        /\ Strip(values[i][1]) = key
        /\ \A k \in DataRows(values) : Strip(values[k][1]) = key => k <= i

\* read_settings_tab: values are the rows of Settings!A1:B100, each row the
\* texts of its cells; the result maps each stripped key to its stripped
\* value, the last row of a key winning.  A failed read (readOk = FALSE)
\* and an empty tab give the empty mapping.
ReadSettingsTab(readOk, values) ==
    IF readOk
    THEN [key \in {Strip(values[i][1]) : i \in DataRows(values)} |->
             Strip(values[LastRow(values, key)][2])]
    ELSE <<>>

\* OrNone without the except clause: the ValueError leaves parse_criteria
OrNoneUncaught(r) ==
    IF r.ok THEN [raised |-> FALSE, v |-> r.v] ELSE [raised |-> TRUE, v |-> None]

\* except ValueError: criteria[field] = None
OrNone(r) ==
    IF r.ok THEN [raised |-> FALSE, v |-> r.v] ELSE [raised |-> FALSE, v |-> None]

\* one numeric field of parse_criteria: float(text), None on ValueError
ParseNumericField(text) == OrNone(ParseFloat(text))

\* one boolean field of parse_criteria
ParseBooleanField(text) ==
    Bool(Lower(text) \in {Text("y"), Text("yes"), Text("true"), Text("1")})

\* the fields of the three lists that are keys of the settings
FieldsIn(raw) ==
    {f \in numeric_fields \cup boolean_fields \cup string_fields :
        Text(f) \in DOMAIN raw}

\* parse_criteria: [raised, criteria]; raw maps texts to texts and the
\* criteria are keyed by the field names
ParseCriteria(raw) ==
    [raised |-> \E f \in FieldsIn(raw) \cap numeric_fields :
                    ParseNumericField(raw[Text(f)]).raised,
     criteria |->
        [f \in FieldsIn(raw) |->
            IF f \in numeric_fields THEN ParseNumericField(raw[Text(f)]).v
            ELSE IF f \in boolean_fields THEN ParseBooleanField(raw[Text(f)])
            ELSE Str(raw[Text(f)])]]

\* one range rule of validate_criteria
RangeErrors(c, field, hi, message) ==
    IF field \in DOMAIN c /\ Truthy(c[field])
    THEN IF FloatLt(c[field], FromInt(0)) \/ FloatGt(c[field], FromInt(hi))
         THEN <<message>>
         ELSE <<>>
    ELSE <<>>

\* the year rules of validate_criteria
YearErrors(c) ==
    IF "Backtest Start Year" \in DOMAIN c /\ "Backtest End Year" \in DOMAIN c
    THEN IF Truthy(c["Backtest Start Year"]) /\ Truthy(c["Backtest End Year"])
         THEN (IF FloatGe(c["Backtest Start Year"], c["Backtest End Year"])
               THEN <<"Backtest Start Year must be before End Year">>
               ELSE <<>>)
              \o
              (IF FloatLt(c["Backtest Start Year"], FromInt(1990))
                  \/ FloatGt(c["Backtest End Year"], FromInt(2030))
               THEN <<"Backtest years should be between 1990 and 2030">>
               ELSE <<>>)
         ELSE <<>>
    ELSE <<>>

\* return len(errors) == 0, errors
Validated(errs) == [valid |-> Len(errs) = 0, errors |-> errs]

\* validate_criteria: [valid, errors]
ValidateCriteria(c) ==
    Validated(
        RangeErrors(c, "Min CAGR (%)", 500,
                    "Min CAGR (%) should be between 0 and 500")
     \o RangeErrors(c, "Min Sharpe", 10,
                    "Min Sharpe should be between 0 and 10")
     \o RangeErrors(c, "Max Drawdown (%)", 100,
                    "Max Drawdown (%) should be between 0 and 100")
     \o RangeErrors(c, "Min Win Rate (%)", 100,
                    "Min Win Rate (%) should be between 0 and 100")
     \o RangeErrors(c, "Min Trades Per Year", 10000,
                    "Min Trades Per Year should be between 0 and 10000")
     \o YearErrors(c))

(***************************************************************************)
(* MultiSourceScraper: metric extraction and the filter                    *)
(***************************************************************************)
\* the literal part of each pattern of _extract_metric, by the key of the
\* patterns dict:  <literal>[:\s]+([0-9.]+)%?
patterns ==
    (Text("cagr") :> Text("CAGR"))
    @@ (Text("sharpe") :> Text("Sharpe"))
    @@ (Text("win rate") :> Text("Win Rate"))
    @@ (Text("drawdown") :> Text("Drawdown"))

\* end (exclusive) of the longest run of [:\s] starting at position i (the
\* colon is 58)
RECURSIVE ScanSeparators(_, _)
ScanSeparators(s, i) ==
    IF i <= Len(s) /\ (s[i] = 58 \/ IsSpace(s[i])) THEN ScanSeparators(s, i + 1) ELSE i

\* end (exclusive) of the longest run of [0-9.] starting at position i (the
\* point is 46)
RECURSIVE ScanNumber(_, _)
ScanNumber(s, i) ==
    IF i <= Len(s) /\ (s[i] = 46 \/ IsDigit(s[i])) THEN ScanNumber(s, i + 1) ELSE i

\* whether  <literal>[:\s]+([0-9.]+)  matches text at position i, the
\* literal matched as re.IGNORECASE matches it
MatchesAt(text, i, literal) ==
    /\ i + Len(literal) - 1 <= Len(text)
    /\ \A j \in 1..Len(literal) : IgnoreCaseMatch(text[i + j - 1], literal[j])
    /\ ScanSeparators(text, i + Len(literal)) > i + Len(literal)
    /\ ScanNumber(text, ScanSeparators(text, i + Len(literal)))
          > ScanSeparators(text, i + Len(literal))

\* re.search: the first position from i on where the pattern matches, 0 if
\* none
SearchFrom(text, i, literal) ==
    IF \E j \in i..Len(text) : MatchesAt(text, j, literal)
    THEN Least({j \in i..Len(text) : MatchesAt(text, j, literal)})
    ELSE 0

\* group 1 of the pattern, whose run of separators ends at sepEnd
Group1(text, sepEnd) == SubSeq(text, sepEnd, ScanNumber(text, sepEnd) - 1)

\* match.group(1) for the match at position i; '' when there is none
GroupAt(text, i, literal) ==
    IF i = 0 THEN <<>> ELSE Group1(text, ScanSeparators(text, i + Len(literal)))

\* the search for the pattern filed under key
ExtractPattern(text, key) ==
    IF key \in DOMAIN patterns
    THEN GroupAt(text, SearchFrom(text, 1, patterns[key]), patterns[key])
    ELSE <<>>

\* _extract_metric: the pattern is patterns.get(metric.lower()); the result
\* is group 1 of the leftmost match, '' without a match or a pattern
ExtractMetric(text, metric) == ExtractPattern(text, Lower(metric))

\* float(v) for a metric value: [ok, v], ok = FALSE when float() raises
ToFloat(v) ==
    CASE v.k = "str" -> ParseFloat(v.s)
      [] v.k \in {"float", "nan", "inf"} -> [ok |-> TRUE, v |-> v]
      [] v.k = "bool" -> [ok |-> TRUE, v |-> FromInt(v.m)]
      [] OTHER -> ValueError

\* Compare with an absent value read as 0
CompareAbsentAsZero(value, number, limit, below) ==
    IF ~Truthy(value)
    THEN (IF below /\ FloatLt(Zero, limit) THEN "reject"
          ELSE IF ~below /\ FloatGt(Zero, limit) THEN "reject"
          ELSE "pass")
    ELSE IF ~number.ok THEN "raise"
    ELSE IF below /\ FloatLt(number.v, limit) THEN "reject"
    ELSE IF ~below /\ FloatGt(number.v, limit) THEN "reject"
    ELSE "pass"

\* `value and float(value) < limit` (below) or `... > limit` (not below):
\* "pass", "reject" or "raise"
Compare(value, number, limit, below) ==
    IF ~Truthy(value) THEN "pass"
    ELSE IF ~number.ok THEN "raise"
    ELSE IF below /\ FloatLt(number.v, limit) THEN "reject"
    ELSE IF ~below /\ FloatGt(number.v, limit) THEN "reject"
    ELSE "pass"

\* one check of _meets_criteria: "pass", "reject" or "raise".
\* below = TRUE for the minimum thresholds (reject when the value is below),
\* FALSE for the maximum drawdown (reject when the value is above).
CheckMetric(c, s, threshold, field, below) ==
    IF Truthy(GetOr(c, threshold, None))
    THEN Compare(GetOr(s, field, None), ToFloat(GetOr(s, field, None)), c[threshold],
                 below)
    ELSE "pass"

\* the checks run in order and the first that does not pass decides
RECURSIVE FirstStop(_)
FirstStop(checks) ==
    IF checks = <<>> THEN "accept"
    ELSE IF Head(checks) /= "pass" THEN Head(checks)
    ELSE FirstStop(Tail(checks))

\* _meets_criteria: "accept" (True), "reject" (False) or "raise"
MeetsCriteria(c, s) ==
    FirstStop(<<CheckMetric(c, s, "Min CAGR (%)", "Claimed CAGR (%)", TRUE),
                CheckMetric(c, s, "Min Sharpe", "Claimed Sharpe Ratio", TRUE),
                CheckMetric(c, s, "Max Drawdown (%)", "Claimed Max Drawdown (%)", FALSE),
                CheckMetric(c, s, "Min Win Rate (%)", "Claimed Win Rate (%)", TRUE)>>)

(***************************************************************************)
(* MultiSourceScraper: the source adapters and scrape_all                  *)
(***************************************************************************)
Adapters == {"scrape_youtube", "scrape_option_alpha", "scrape_quantconnect"}

\* the methods class MultiSourceScraper defines
ScraperMethods ==
    Adapters \cup
    {"__init__", "_meets_criteria", "_extract_strategy_type", "_extract_asset_class",
     "_extract_tickers", "_extract_market_regime", "_extract_trading_hours",
     "_extract_metric", "scrape_all"}

\* `word in text`
Contains(text, word) ==
    \E i \in 1..(Len(text) - Len(word) + 1) :
        SubSeq(text, i, i + Len(word) - 1) = word

\* the label of the first row <<word, label>> of the table whose word the
\* text low holds, and the default when it holds none
Classify(low, table, default) ==
    IF \E k \in DOMAIN table : Contains(low, table[k][1])
    THEN table[Least({k \in DOMAIN table : Contains(low, table[k][1])})][2]
    ELSE default

\* the list types of _extract_strategy_type
types ==
    <<"Iron Condor", "Iron Butterfly", "Scalping", "Trend Following",
      "Mean Reversion", "Breakout", "Wheel", "Credit Spread", "Strangle">>

\* _extract_strategy_type: the first type whose lower case text.lower() holds
ExtractStrategyType(text) ==
    IF \E k \in DOMAIN types : Contains(Lower(text), Lower(Text(types[k])))
    THEN types[Least({k \in DOMAIN types :
                          Contains(Lower(text), Lower(Text(types[k])))})]
    ELSE "Unknown"

\* _extract_asset_class: the words of each branch in order
ExtractAssetClass(text) ==
    Classify(Lower(text),
             <<<<Text("option"), "Options">>, <<Text("call"), "Options">>,
               <<Text("put"), "Options">>, <<Text("condor"), "Options">>,
               <<Text("butterfly"), "Options">>,
               <<Text("forex"), "Forex">>, <<Text("eur/usd"), "Forex">>,
               <<Text("gbp/usd"), "Forex">>,
               <<Text("crypto"), "Crypto">>, <<Text("bitcoin"), "Crypto">>,
               <<Text("ethereum"), "Crypto">>,
               <<Text("cfd"), "CFD">>, <<Text("contract for difference"), "CFD">>>>,
             "Stocks")

\* _extract_market_regime
ExtractMarketRegime(text) ==
    Classify(Lower(text),
             <<<<Text("bull"), "Bull Market">>, <<Text("bear"), "Bear Market">>,
               <<Text("range"), "Range-bound">>>>,
             "All Regimes")

\* _extract_trading_hours
ExtractTradingHours(text) ==
    Classify(Lower(text),
             <<<<Text("day"), "Day Trading">>, <<Text("swing"), "Swing Trading">>,
               <<Text("position"), "Position Trading">>>>,
             "All Hours")

\* the list common_words of _extract_tickers
common_words ==
    {Text("THE"), Text("AND"), Text("FOR"), Text("WITH"), Text("FROM"),
     Text("THIS"), Text("THAT"), Text("WHICH"), Text("THESE")}

NotCommon(m) == m \notin common_words

\* end (exclusive) of the run of [A-Z] (65..90) starting at position i
UpperEnd(text, i) ==
    Least({j \in i..(Len(text) + 1) : j > Len(text) \/ text[j] \notin 65..90})

\* whether  \b[A-Z]{1,5}\b  matches text at position i: a run of one to five
\* capital letters with no character of \w before it or after it
IsTicker(text, i) ==
    /\ text[i] \in 65..90
    /\ i = 1 \/ ~IsWordChar(text[i - 1])
    /\ UpperEnd(text, i) - i <= 5
    /\ UpperEnd(text, i) > Len(text) \/ ~IsWordChar(text[UpperEnd(text, i)])

\* re.findall: the matches that start in text[i..j], one half of the
\* positions after the other
RECURSIVE TickersIn(_, _, _)
TickersIn(text, i, j) ==
    IF i > j THEN <<>>
    ELSE IF i < j
    THEN TickersIn(text, i, (i + j) \div 2) \o TickersIn(text, (i + j) \div 2 + 1, j)
    ELSE IF IsTicker(text, i) THEN <<SubSeq(text, i, UpperEnd(text, i) - 1)>>
    ELSE <<>>

\* ', '.join(tickers[:n])
RECURSIVE Join(_, _)
Join(tickers, n) ==
    IF tickers = <<>> \/ n = 0 THEN <<>>
    ELSE IF Len(tickers) = 1 \/ n = 1 THEN Head(tickers)
    ELSE Head(tickers) \o Text(", ") \o Join(Tail(tickers), n - 1)

\* _extract_tickers
ExtractTickers(text) ==
    Join(SelectSeq(TickersIn(text, 1, Len(text)), NotCommon), 5)

\* the record scrape_youtube builds for one search result; n is
\* len(strategies) + 1.  The title and the description are texts; the video
\* id, the channel and the labels are strings.
BuildVideo(item, n) ==
    ("No" :> n)
    @@ ("Strategy Name" :> item.title)
    @@ ("Link" :> "https://www.youtube.com/watch?v=" \o item.videoId)
    @@ ("Channel" :> item.channelTitle)
    @@ ("Strategy Type" :> ExtractStrategyType(item.title))
    @@ ("Asset Class" :> ExtractAssetClass(item.title))
    @@ ("Specific Tickers" :> ExtractTickers(item.description))
    @@ ("Market Regime" :> ExtractMarketRegime(item.description))
    @@ ("Trading Hours" :> ExtractTradingHours(item.description))
    @@ ("Claimed Win Rate (%)" :>
          Str(ExtractMetric(item.description, Text("win rate"))))
    @@ ("Claimed CAGR (%)" :>
          Str(ExtractMetric(item.description, Text("cagr"))))
    @@ ("Claimed Max Drawdown (%)" :>
          Str(ExtractMetric(item.description, Text("drawdown"))))
    @@ ("Claimed Sharpe Ratio" :>
          Str(ExtractMetric(item.description, Text("sharpe"))))
    @@ ("Description" :> item.description)
    @@ ("Status" :> "Pending Claude")
    @@ ("Pass to Claude (Y/N)" :> "Y")

\* one pass of the for loop of scrape_youtube: the item's record is video
\* and _meets_criteria answered meets
RECURSIVE YoutubeLoop(_, _, _)
YoutubeItem(c, its, strategies, video, meets) ==
    IF meets = "raise" THEN [raised |-> TRUE, strategies |-> strategies]
    ELSE YoutubeLoop(c, Tail(its),
                     IF meets = "accept" THEN Append(strategies, video) ELSE strategies)

\* the for loop of scrape_youtube over the items left; an exception raised
\* while one item is built or filtered leaves the loop
YoutubeLoop(c, its, strategies) ==
    IF its = <<>> THEN [raised |-> FALSE, strategies |-> strategies]
    ELSE YoutubeItem(c, its, strategies,
                     BuildVideo(Head(its), Len(strategies) + 1),
                     MeetsCriteria(c, BuildVideo(Head(its), Len(strategies) + 1)))

\* Caught without the except clause: the exception leaves the adapter
Uncaught(r) == r

\* except Exception: return []
Caught(r) ==
    IF r.raised THEN [raised |-> FALSE, strategies |-> <<>>] ELSE r

Enabled(c, switch) == Truthy(GetOr(c, switch, Bool(TRUE)))

\* scrape_youtube: [raised, strategies]; the try block catches every
\* exception of the upstream call and of the loop and returns []
scrape_youtube(c, upstreamOk, its) ==
    IF ~Enabled(c, "YouTube Enabled") THEN [raised |-> FALSE, strategies |-> <<>>]
    ELSE IF ~upstreamOk THEN Caught([raised |-> TRUE, strategies |-> <<>>])
    ELSE Caught(YoutubeLoop(c, its, <<>>))

\* scrape_option_alpha: the page is fetched and nothing is parsed out of it
scrape_option_alpha(c, upstreamOk) ==
    IF ~Enabled(c, "Option Alpha Enabled") THEN [raised |-> FALSE, strategies |-> <<>>]
    ELSE IF ~upstreamOk THEN Caught([raised |-> TRUE, strategies |-> <<>>])
    ELSE [raised |-> FALSE, strategies |-> <<>>]

\* scrape_quantconnect: the page is fetched and nothing is parsed out of it
scrape_quantconnect(c, upstreamOk) ==
    IF ~Enabled(c, "QuantConnect Enabled") THEN [raised |-> FALSE, strategies |-> <<>>]
    ELSE IF ~upstreamOk THEN Caught([raised |-> TRUE, strategies |-> <<>>])
    ELSE [raised |-> FALSE, strategies |-> <<>>]

\* Renumber numbering from 0 (idx instead of idx + 1)
RenumberFromZero(strategies) ==
    [idx \in 1..Len(strategies) |-> ("No" :> idx - 1) @@ strategies[idx]]

\* the renumbering loop of scrape_all
Renumber(strategies) ==
    [idx \in 1..Len(strategies) |-> ("No" :> idx) @@ strategies[idx]]

(***************************************************************************)
(* Inputs                                                                  *)
(***************************************************************************)
\* the longest YouTube search response considered
MaxItems == 2

\* the most keys a Settings mapping given to parse_criteria holds
MaxSettings == 2

\* the most thresholds the criteria given to _meets_criteria hold
MaxThresholds == 2

NumericTexts ==
    {Text("abc"), Text("30%"), Text("-1"), Text("0"), Text(" 5 "), Text("30"),
     Text("600"), Text("20000"), Text("nan"), Text("1980"), Text("2025"),
     Text("2040")}

\* "Keywords" is a key parse_criteria does not recognise
SettingKeys == numeric_fields \cup {"YouTube Enabled", "YouTube Keywords", "Keywords"}

TextsFor(key) ==
    IF key \in numeric_fields THEN NumericTexts
    ELSE IF key \in boolean_fields THEN {Text("Yes"), Text("no"), Text("0")}
    ELSE {Text("iron,condor")}

AllTexts ==
    NumericTexts
    \cup {Text("Yes"), Text("no"), Text("iron,condor"), Text("45"), Text("2020"), <<>>}

\* the texts a key takes as a Settings cell (filter = FALSE) or as a
\* threshold of the filter's criteria (filter = TRUE)
TextsOf(key, filter) ==
    IF filter THEN {Text("abc"), Text("0"), Text("30"), Text("45"), Text("nan")}
    ELSE TextsFor(key)

\* the mappings over at most n of the given keys
Mappings(keys, n, filter) ==
    UNION {{f \in [K -> AllTexts] : \A k \in K : f[k] \in TextsOf(k, filter)} :
           K \in {K \in SUBSET keys : Cardinality(K) <= n}}

\* the mapping f with its keys as texts, as read_settings_tab returns it
Keyed(f) ==
    [t \in {Text(k) : k \in DOMAIN f} |->
        f[CHOOSE k \in DOMAIN f : Text(k) = t]]

SettingsInputs == {Keyed(f) : f \in Mappings(SettingKeys, MaxSettings, FALSE)}

ThresholdKeys ==
    {"Min CAGR (%)", "Min Sharpe", "Max Drawdown (%)", "Min Win Rate (%)"}

MetricKeys ==
    {"Claimed CAGR (%)", "Claimed Sharpe Ratio", "Claimed Max Drawdown (%)",
     "Claimed Win Rate (%)"}

\* the records handed to _meets_criteria; a metric is what _extract_metric
\* can return: '' or a run of [0-9.]
FilterStrategies ==
    {[k \in MetricKeys |-> Str(f[k])] :
        f \in [MetricKeys -> {<<>>, Text("5"), Text("50"), Text(".")}]}

\* the criteria from which the records are filtered, as settings
ThresholdInputs == {Keyed(f) : f \in Mappings(ThresholdKeys, MaxThresholds, TRUE)}

Header == <<Text("Setting"), Text("Value")>>

\* a row of the tab: the key in column A and the text in column B
Row(key, text) == <<Text(key), text>>

\* a row whose cells have white space around them (160 is the no-break
\* space)
Padded(key, text) ==
    <<Text(" ") \o Text(key) \o <<160>>, <<160>> \o text>>

\* Settings tabs read by lambda_handler: the rows of Settings!A1:B100.  The
\* last two hold a row of one cell, padded cells, a key given twice and no
\* header row (the first row is skipped whatever it holds).
Sheets ==
    {<<>>,
     <<Header, Row("Min CAGR (%)", Text("30")), Row("Min Win Rate (%)", Text("45"))>>,
     <<Header, Row("Backtest Start Year", Text("2025")),
       Row("Backtest End Year", Text("2020"))>>,
     <<Header, Row("Min CAGR (%)", Text("600")), Row("Min Sharpe", Text("30"))>>,
     <<Header, Row("YouTube Enabled", Text("no")), Row("Min Sharpe", Text("abc"))>>,
     <<Header, Row("Option Alpha Enabled", Text("no")),
       Row("Max Drawdown (%)", Text(" 5 ")), Row("Keywords", Text("iron,condor"))>>,
     <<Header, Row("QuantConnect Enabled", Text("0")),
       Row("Max Drawdown (%)", Text("0"))>>,
     <<Header, <<Text("Min Sharpe")>>, Padded("Min CAGR (%)", Text("45")),
       Row("Min CAGR (%)", Text("abc")), Padded("Min CAGR (%)", Text("30"))>>,
     <<Row("Min Sharpe", Text("abc")), Row("Max Drawdown (%)", Text("600")),
       Row("Max Drawdown (%)", Text("45"))>>}


\* YouTube search results
ItemPool ==
    {[title |-> Text("Iron Condor on SPY"), videoId |-> "v1", channelTitle |-> "ch",
      description |-> Text("CAGR: 50%")],
     [title |-> Text("t2"), videoId |-> "v2", channelTitle |-> "ch",
      description |-> <<>>],
     [title |-> Text("Bitcoin breakout"), videoId |-> "v3", channelTitle |-> "ch",
      description |-> Text("cagr 5 Win Rate: 50")],
     [title |-> Text("t4"), videoId |-> "v4", channelTitle |-> "ch",
      description |-> Text("CAGR: . Drawdown 50")],
     [title |-> Text("t5"), videoId |-> "v5", channelTitle |-> "ch",
      description |-> Text("Drawdown: 50% Sharpe 5 THE swing day for QQQ")]}

ItemSeqs == UNION {[1..n -> ItemPool] : n \in 0..MaxItems}

\* lambda_handler events: whether the credentials load, whether the
\* Settings tab can be read, and the rows of the tab
Events == [credentialsOk : BOOLEAN, readOk : BOOLEAN, values : Sheets]

\* criteria objects of /scrape requests: the criteria of the Settings tabs
\* (numbers written as floats), and objects with a "Keywords" entry that is
\* a number, null, a string or a list
RequestCriteria ==
    {ParseCriteria(ReadSettingsTab(TRUE, sh)).criteria : sh \in Sheets}
    \cup {"Keywords" :> FromInt(5),
          "Keywords" :> None,
          ("Keywords" :> Str(Text("iron condor"))) @@ ("Min CAGR (%)" :> FromInt(30)),
          ("Keywords" :> List(<<Str(Text("iron"))>>))
              @@ ("Max Drawdown (%)" :> FromInt(600))}

\* /scrape requests: whether the body decodes as JSON (json = FALSE: no body
\* or a body that is not JSON) and the value it decodes to.  The decoded
\* values are the falsy ones (null, false, 0, "", [], {}), truthy values
\* that are not objects, and objects with or without "youtube_api_key" and
\* "criteria".
Requests ==
    {[json |-> FALSE, data |-> None]}
    \cup [json : {TRUE},
          data : {None, Bool(FALSE), Zero, Str(<<>>), List(<<>>), Dict(<<>>),
                  Bool(TRUE), FromInt(5), Str(Text("k")), List(<<Str(Text("k"))>>)}
                 \cup {Dict("criteria" :> Dict(c)) : c \in RequestCriteria}
                 \cup {Dict("youtube_api_key" :> key) :
                          key \in {None, Str(<<>>), Str(Text("k"))}}
                 \cup {Dict(("youtube_api_key" :> key) @@ ("criteria" :> c)) :
                          key \in {Str(<<>>), Str(Text("k")), FromInt(5)},
                          c \in {None, Str(Text("k")), List(<<>>)}
                                \cup {Dict(d) : d \in RequestCriteria}}]

NoResponse == [statusCode |-> 0, body |-> <<>>]

Idle ==
    /\ entry = "none"
    /\ settings = <<>>
    /\ criteria = <<>>
    /\ is_valid = FALSE
    /\ errors = <<>>
    /\ calls = <<>>
    /\ items = <<>>
    /\ upstream = [a \in Adapters |-> "not_called"]
    /\ youtube_strategies = <<>>
    /\ oa_strategies = <<>>
    /\ qc_strategies = <<>>
    /\ all_strategies = <<>>
    /\ strategy = <<>>
    /\ verdict = "none"
    /\ response = NoResponse

(***************************************************************************)
(* The pipeline: lambda_handler, scrape_all and the /scrape endpoint       *)
(***************************************************************************)
Init == pc = "idle" /\ Idle

\* an exception reaches the except clause of lambda_handler
LambdaError(message) ==
    [statusCode |-> 500, body |-> ("error" :> message)]

\* lambda_handler up to the call of scrape_all
LambdaHandler ==
    /\ pc = "idle"
    /\ \E event \in Events :
      \E read \in {ReadSettingsTab(event.readOk, event.values)} :
      \E parsed \in {ParseCriteria(read)} :
      \E checked \in {ValidateCriteria(parsed.criteria)} :
            /\ entry' = "lambda"
            /\ IF ~event.credentialsOk
               THEN /\ response' = LambdaError("credentials")
                    /\ pc' = "done"
                    /\ UNCHANGED <<settings, criteria, is_valid, errors, calls>>
               ELSE IF parsed.raised
               THEN /\ response' = LambdaError("ValueError")
                    /\ pc' = "done"
                    /\ settings' = read
                    /\ calls' = <<"read_settings_tab", "parse_criteria">>
                    /\ UNCHANGED <<criteria, is_valid, errors>>
               ELSE /\ settings' = read
                    /\ criteria' = parsed.criteria
                    /\ is_valid' = checked.valid
                    /\ errors' = checked.errors
                    /\ calls' = <<"read_settings_tab", "parse_criteria",
                                  "validate_criteria">>
                    /\ IF ~checked.valid
                       THEN /\ response' =
                                 [statusCode |-> 400,
                                  body |-> ("error" :> "Invalid criteria")
                                           @@ ("details" :> checked.errors)]
                            /\ pc' = "done"
                       ELSE /\ response' = response
                            /\ pc' = "scrape_youtube"
    /\ UNCHANGED <<items, upstream, youtube_strategies, oa_strategies, qc_strategies,
                   all_strategies, strategy, verdict>>

\* an adapter's exception leaves scrape_all and reaches lambda_handler
Propagate ==
    /\ response' = LambdaError("adapter")
    /\ pc' = "done"

\* scrape_all: youtube_strategies = self.scrape_youtube(...); extend
ScrapeYoutube ==
    /\ pc = "scrape_youtube"
    /\ \E upstreamOk \in BOOLEAN, its \in ItemSeqs :
      \E r \in {scrape_youtube(criteria, upstreamOk, its)},
         called \in {Enabled(criteria, "YouTube Enabled")} :
            /\ called /\ upstreamOk => items' = its
            /\ ~(called /\ upstreamOk) => its = <<>> /\ items' = <<>>
            /\ ~called => upstreamOk
            /\ upstream' = [upstream EXCEPT !["scrape_youtube"] =
                                IF ~called THEN "not_called"
                                ELSE IF upstreamOk THEN "ok" ELSE "failed"]
            /\ calls' = Append(calls, "scrape_youtube")
            /\ IF r.raised
               THEN Propagate /\ UNCHANGED <<youtube_strategies, all_strategies>>
               ELSE /\ youtube_strategies' = r.strategies
                    /\ all_strategies' = all_strategies \o r.strategies
                    /\ pc' = "scrape_option_alpha"
                    /\ response' = response
    /\ UNCHANGED <<entry, settings, criteria, is_valid, errors, oa_strategies,
                   qc_strategies, strategy, verdict>>

\* scrape_all: oa_strategies = self.scrape_option_alpha(); extend
ScrapeOptionAlpha ==
    /\ pc = "scrape_option_alpha"
    /\ \E upstreamOk \in BOOLEAN :
      \E r \in {scrape_option_alpha(criteria, upstreamOk)},
         called \in {Enabled(criteria, "Option Alpha Enabled")} :
            /\ ~called => upstreamOk
            /\ upstream' = [upstream EXCEPT !["scrape_option_alpha"] =
                                IF ~called THEN "not_called"
                                ELSE IF upstreamOk THEN "ok" ELSE "failed"]
            /\ calls' = Append(calls, "scrape_option_alpha")
            /\ IF r.raised
               THEN Propagate /\ UNCHANGED <<oa_strategies, all_strategies>>
               ELSE /\ oa_strategies' = r.strategies
                    /\ all_strategies' = all_strategies \o r.strategies
                    /\ pc' = "scrape_quantconnect"
                    /\ response' = response
    /\ UNCHANGED <<entry, settings, criteria, is_valid, errors, items,
                   youtube_strategies, qc_strategies, strategy, verdict>>

\* scrape_all: qc_strategies = self.scrape_quantconnect(); extend
ScrapeQuantConnect ==
    /\ pc = "scrape_quantconnect"
    /\ \E upstreamOk \in BOOLEAN :
      \E r \in {scrape_quantconnect(criteria, upstreamOk)},
         called \in {Enabled(criteria, "QuantConnect Enabled")} :
            /\ ~called => upstreamOk
            /\ upstream' = [upstream EXCEPT !["scrape_quantconnect"] =
                                IF ~called THEN "not_called"
                                ELSE IF upstreamOk THEN "ok" ELSE "failed"]
            /\ calls' = Append(calls, "scrape_quantconnect")
            /\ IF r.raised
               THEN Propagate /\ UNCHANGED <<qc_strategies, all_strategies>>
               ELSE /\ qc_strategies' = r.strategies
                    /\ all_strategies' = all_strategies \o r.strategies
                    /\ pc' = "renumber"
                    /\ response' = response
    /\ UNCHANGED <<entry, settings, criteria, is_valid, errors, items,
                   youtube_strategies, oa_strategies, strategy, verdict>>

\* scrape_all renumbers and returns; lambda_handler answers 200
ScrapeAllReturn ==
    /\ pc = "renumber"
    /\ all_strategies' = Renumber(all_strategies)
    /\ response' =
          [statusCode |-> 200,
           body |-> ("status" :> "success")
                    @@ ("total_strategies" :> Len(Renumber(all_strategies)))
                    @@ ("criteria" :> criteria)
                    @@ ("strategies" :> Renumber(all_strategies))]
    /\ pc' = "done"
    /\ UNCHANGED <<entry, settings, criteria, is_valid, errors, calls, items, upstream,
                   youtube_strategies, oa_strategies, qc_strategies, strategy, verdict>>

\* an exception reaches the except clause of scrape(): 500 with str(e) and
\* the traceback (both given as the exception's class and subject)
HttpError(message) ==
    [statusCode |-> 500,
     body |-> ("status" :> "error") @@ ("message" :> message)
              @@ ("traceback" :> message)]

\* the /scrape endpoint of n8n_wrapper.py, every step inside its try block.
\* request.get_json(force=True) raises BadRequest when the body is missing
\* or is not JSON; data.get and criteria.keys raise AttributeError on a
\* value that is not a dict; criteria.get("Keywords", "")[:150] raises
\* TypeError on a value that cannot be sliced.  Then it builds
\* MultiSourceScraper and calls run_all on it; the class defines no run_all,
\* so the call raises AttributeError.  Every exception is answered with 500.
HttpScrape ==
    /\ pc = "idle"
    /\ \E request \in Requests :
      \E data \in {request.data} :
      \E youtube_api_key \in
            {IF data.k = "dict" THEN GetOr(data.d, "youtube_api_key", None) ELSE None},
         c \in {IF data.k = "dict" THEN GetOr(data.d, "criteria", Dict(<<>>))
                ELSE Dict(<<>>)} :
        /\ entry' = "http"
        /\ IF ~request.json
           THEN /\ response' = HttpError("BadRequest")
                /\ UNCHANGED <<criteria, calls>>
           ELSE IF ~Truthy(data)
           THEN /\ response' =
                     [statusCode |-> 400,
                      body |-> ("status" :> "error")
                               @@ ("message" :> "No JSON body received")]
                /\ UNCHANGED <<criteria, calls>>
           ELSE IF data.k /= "dict"
           THEN /\ response' = HttpError("AttributeError: get")
                /\ UNCHANGED <<criteria, calls>>
           ELSE IF ~Truthy(youtube_api_key)
           THEN /\ response' =
                     [statusCode |-> 400,
                      body |-> ("status" :> "error")
                               @@ ("message" :> "youtube_api_key is required")]
                /\ UNCHANGED <<criteria, calls>>
           ELSE IF c.k /= "dict"
           THEN /\ response' = HttpError("AttributeError: keys")
                /\ UNCHANGED <<criteria, calls>>
           ELSE IF GetOr(c.d, "Keywords", Str(<<>>)).k \notin {"str", "list"}
           THEN /\ response' = HttpError("TypeError: slice")
                /\ UNCHANGED <<criteria, calls>>
           ELSE /\ "run_all" \notin ScraperMethods
                /\ response' = HttpError("AttributeError: run_all")
                /\ criteria' = c.d
                /\ calls' = <<"MultiSourceScraper">>
    /\ pc' = "done"
    /\ UNCHANGED <<settings, is_valid, errors, items, upstream, youtube_strategies,
                   oa_strategies, qc_strategies, all_strategies, strategy, verdict>>

Next ==
    \/ LambdaHandler
    \/ ScrapeYoutube
    \/ ScrapeOptionAlpha
    \/ ScrapeQuantConnect
    \/ ScrapeAllReturn
    \/ HttpScrape

Spec == Init /\ [][Next]_vars

(***************************************************************************)
(* parse_criteria and validate_criteria on every Settings mapping          *)
(***************************************************************************)
InitCriteria ==
    /\ pc = "settings"
    /\ settings \in SettingsInputs
    /\ entry = "none"
    /\ criteria = <<>>
    /\ is_valid = FALSE
    /\ errors = <<>>
    /\ calls = <<>>
    /\ items = <<>>
    /\ upstream = [a \in Adapters |-> "not_called"]
    /\ youtube_strategies = <<>>
    /\ oa_strategies = <<>>
    /\ qc_strategies = <<>>
    /\ all_strategies = <<>>
    /\ strategy = <<>>
    /\ verdict = "none"
    /\ response = NoResponse

\* criteria = criteria_reader.parse_criteria(settings)
ParseCriteriaStep ==
    /\ pc = "settings"
    /\ IF ParseCriteria(settings).raised
       THEN pc' = "parse_raised" /\ criteria' = criteria
       ELSE pc' = "parsed" /\ criteria' = ParseCriteria(settings).criteria
    /\ calls' = Append(calls, "parse_criteria")
    /\ UNCHANGED <<entry, settings, is_valid, errors, items, upstream,
                   youtube_strategies, oa_strategies, qc_strategies, all_strategies,
                   strategy, verdict, response>>

\* is_valid, errors = criteria_reader.validate_criteria(criteria)
ValidateCriteriaStep ==
    /\ pc = "parsed"
    /\ is_valid' = ValidateCriteria(criteria).valid
    /\ errors' = ValidateCriteria(criteria).errors
    /\ pc' = "validated"
    /\ calls' = Append(calls, "validate_criteria")
    /\ UNCHANGED <<entry, settings, criteria, items, upstream, youtube_strategies,
                   oa_strategies, qc_strategies, all_strategies, strategy, verdict,
                   response>>

NextCriteria == ParseCriteriaStep \/ ValidateCriteriaStep

SpecCriteria == InitCriteria /\ [][NextCriteria]_vars

(***************************************************************************)
(* _meets_criteria on every record and criteria                            *)
(***************************************************************************)
InitFilter ==
    /\ pc = "filter"
    /\ settings \in ThresholdInputs
    /\ criteria = ParseCriteria(settings).criteria
    /\ strategy \in FilterStrategies
    /\ entry = "none"
    /\ is_valid = FALSE
    /\ errors = <<>>
    /\ calls = <<>>
    /\ items = <<>>
    /\ upstream = [a \in Adapters |-> "not_called"]
    /\ youtube_strategies = <<>>
    /\ oa_strategies = <<>>
    /\ qc_strategies = <<>>
    /\ all_strategies = <<>>
    /\ verdict = "none"
    /\ response = NoResponse

\* self._meets_criteria(strategy)
MeetsCriteriaStep ==
    /\ pc = "filter"
    /\ verdict' = MeetsCriteria(criteria, strategy)
    /\ pc' = "filtered"
    /\ calls' = Append(calls, "_meets_criteria")
    /\ UNCHANGED <<entry, settings, criteria, is_valid, errors, items, upstream,
                   youtube_strategies, oa_strategies, qc_strategies, all_strategies,
                   strategy, response>>

NextFilter == MeetsCriteriaStep

SpecFilter == InitFilter /\ [][NextFilter]_vars

(***************************************************************************)
(* Properties                                                              *)
(***************************************************************************)
Range(seq) == {seq[i] : i \in 1..Len(seq)}

Count(seq, x) == Cardinality({i \in 1..Len(seq) : seq[i] = x})

\* the criteria hold a value for the key (any number, 0 included)
ThresholdPresent(c, key) == key \in DOMAIN c /\ c[key].k /= "None"

\* the record holds a value for the performance field
FieldPresent(s, field) == field \in DOMAIN s /\ s[field].k = "str" /\ s[field].s /= <<>>

\* the four checks of the filter
FilterChecks ==
    {[threshold |-> "Min CAGR (%)", field |-> "Claimed CAGR (%)", below |-> TRUE],
     [threshold |-> "Min Sharpe", field |-> "Claimed Sharpe Ratio", below |-> TRUE],
     [threshold |-> "Max Drawdown (%)", field |-> "Claimed Max Drawdown (%)",
      below |-> FALSE],
     [threshold |-> "Min Win Rate (%)", field |-> "Claimed Win Rate (%)",
      below |-> TRUE]}

\* the record's value is a number and  value >= threshold  (minimum
\* thresholds) or  value <= threshold  (maximum drawdown)
ComparisonHolds(chk, c, s) ==
    /\ ToFloat(s[chk.field]).ok
    /\ IF chk.below
       THEN FloatGe(ToFloat(s[chk.field]).v, c[chk.threshold])
       ELSE FloatGe(c[chk.threshold], ToFloat(s[chk.field]).v)

\* C1. The filter rejects every record whose performance fields are all
\* absent, whatever the criteria.
C1_AllAbsentRejected ==
    (pc = "filtered" /\ \A f \in MetricKeys : ~FieldPresent(strategy, f))
        => verdict = "reject"

\* C2. Skip-on-absent: a record with at least one performance field present,
\* whose every present field satisfies its present threshold, is accepted;
\* an absent field never causes rejection.
C2_SkipOnAbsent ==
    (/\ pc = "filtered"
     /\ \E f \in MetricKeys : FieldPresent(strategy, f)
     /\ \A chk \in FilterChecks :
            (ThresholdPresent(criteria, chk.threshold)
             /\ FieldPresent(strategy, chk.field))
                => ComparisonHolds(chk, criteria, strategy))
        => verdict = "accept"

\* C2's case: criteria min CAGR 30 and min win rate 45, record CAGR 50 with
\* win rate, Sharpe and drawdown absent: accepted.
C2_ScenarioA ==
    /\ pc = "filtered"
    /\ DOMAIN criteria = {"Min CAGR (%)", "Min Win Rate (%)"}
    /\ criteria["Min CAGR (%)"] = FromInt(30)
    /\ criteria["Min Win Rate (%)"] = FromInt(45)
    /\ strategy["Claimed CAGR (%)"] = Str(Text("50"))
    /\ \A f \in MetricKeys \ {"Claimed CAGR (%)"} : ~FieldPresent(strategy, f)
    /\ verdict = "accept"

\* C3. Present-vs-present: whenever a threshold is present (0 included) and
\* the record's field is present (a number), the record is accepted only if
\* the comparison holds.
C3_PresentVsPresent ==
    (pc = "filtered" /\ verdict = "accept")
        => \A chk \in FilterChecks :
               (ThresholdPresent(criteria, chk.threshold)
                /\ FieldPresent(strategy, chk.field)
                /\ ToFloat(strategy[chk.field]).ok)
                   => ComparisonHolds(chk, criteria, strategy)

\* the invocation got as far as having criteria to work with
HasCriteria ==
    \/ entry = "lambda" /\ "parse_criteria" \in Range(calls)
    \/ entry = "http" /\ "MultiSourceScraper" \in Range(calls)

\* C4. Fail closed: on every entry path validation runs before any adapter,
\* and with invalid criteria no adapter is invoked and the caller receives
\* the list of violations.
C4_FailClosed ==
    (pc = "done" /\ HasCriteria)
        => /\ "validate_criteria" \in Range(calls)
           /\ ~ValidateCriteria(criteria).valid
                => /\ Range(calls) \cap Adapters = {}
                   /\ "details" \in DOMAIN response.body
                   /\ response.body["details"] = ValidateCriteria(criteria).errors
                   /\ response.body["details"] /= <<>>

\* the five numeric thresholds, their domains [0, hi] and their messages
RangeRules ==
    {[field |-> "Min CAGR (%)", hi |-> 500,
      message |-> "Min CAGR (%) should be between 0 and 500"],
     [field |-> "Min Sharpe", hi |-> 10,
      message |-> "Min Sharpe should be between 0 and 10"],
     [field |-> "Max Drawdown (%)", hi |-> 100,
      message |-> "Max Drawdown (%) should be between 0 and 100"],
     [field |-> "Min Win Rate (%)", hi |-> 100,
      message |-> "Min Win Rate (%) should be between 0 and 100"],
     [field |-> "Min Trades Per Year", hi |-> 10000,
      message |-> "Min Trades Per Year should be between 0 and 10000"]}

\* v is a number of the interval [0, hi]
InDomain(v, hi) ==
    v.k = "float" /\ FloatGe(v, FromInt(0)) /\ FloatGe(FromInt(hi), v)

\* C5. validate_criteria reports exactly one violation naming a threshold
\* that is present and outside its domain, none for a threshold that is
\* absent or inside it, and valid is false exactly when there are violations.
C5_RangeViolations ==
    pc = "validated"
        => /\ \A r \in RangeRules :
                IF ThresholdPresent(criteria, r.field)
                   /\ ~InDomain(criteria[r.field], r.hi)
                THEN Count(errors, r.message) = 1
                ELSE Count(errors, r.message) = 0
           /\ is_valid = FALSE <=> errors /= <<>>

\* C6. Only a validation failure prevents a success response: a request
\* with valid criteria (and an API key) is answered with status "success"
\* and total_strategies = len(strategies), even if every adapter fails.
C6_OnlyValidationBlocks ==
    (pc = "done" /\ HasCriteria /\ ValidateCriteria(criteria).valid)
        => /\ response.statusCode = 200
           /\ "status" \in DOMAIN response.body
           /\ response.body["status"] = "success"
           /\ response.body["total_strategies"] = Len(response.body["strategies"])

YearMessages ==
    {"Backtest Start Year must be before End Year",
     "Backtest years should be between 1990 and 2030"}

\* the year rules the criteria break
BrokenYearRules(c) ==
    {rule \in {"start", "end", "order"} :
        \/ /\ rule = "start"
           /\ ThresholdPresent(c, "Backtest Start Year")
           /\ FloatLt(c["Backtest Start Year"], FromInt(1990))
        \/ /\ rule = "end"
           /\ ThresholdPresent(c, "Backtest End Year")
           /\ FloatGt(c["Backtest End Year"], FromInt(2030))
        \/ /\ rule = "order"
           /\ ThresholdPresent(c, "Backtest Start Year")
           /\ ThresholdPresent(c, "Backtest End Year")
           /\ ~FloatLt(c["Backtest Start Year"], c["Backtest End Year"])}

\* C7. The year rules are checked independently: start year below 1990 is
\* reported even without an end year, end year above 2030 even without a
\* start year, start year not before end year when both are present; and
\* when several hold, each is reported.
C7_YearRulesIndependent ==
    pc = "validated"
        => Cardinality({i \in 1..Len(errors) : errors[i] \in YearMessages})
              >= Cardinality(BrokenYearRules(criteria))

\* texts Python's float() rejects with ValueError
NotNumbers == {Text("abc"), Text("30%")}

\* C8. parse_criteria is total: it never raises, a numeric field whose text
\* does not parse is absent (None) in the result, and an unrecognised key
\* does not appear in the result.
C8_ParseTotal ==
    /\ pc /= "parse_raised"
    /\ pc \in {"parsed", "validated"}
        => /\ DOMAIN criteria \subseteq
                 numeric_fields \cup boolean_fields \cup string_fields
           /\ \A f \in numeric_fields :
                 Text(f) \in DOMAIN settings
                 /\ settings[Text(f)] \in NotNumbers
                    => f \in DOMAIN criteria /\ criteria[f] = None

\* C8's case: a mapping with an unrecognised key and a numeric field holding
\* non-numeric text has been parsed.
C8_MalformedParsed ==
    /\ pc = "parsed"
    /\ Text("Keywords") \in DOMAIN settings
    /\ \E f \in numeric_fields :
          Text(f) \in DOMAIN settings /\ settings[Text(f)] = Text("abc")

\* what the adapters returned, in priority order
Concatenated == youtube_strategies \o oa_strategies \o qc_strategies

\* C9. The output of scrape_all is the adapters' records concatenated in
\* priority order, none dropped or de-duplicated, and the record at position
\* i carries No = i.
C9_Aggregation ==
    (pc = "done" /\ response.statusCode = 200)
        => /\ Len(response.body["strategies"]) = Len(Concatenated)
           /\ \A i \in 1..Len(Concatenated) :
                 /\ response.body["strategies"][i]["No"] = i
                 /\ \A key \in DOMAIN Concatenated[i] \ {"No"} :
                       response.body["strategies"][i][key] = Concatenated[i][key]

\* C9's case: two records of the same video were accepted and both are in
\* the output.
C9_TwoRecords ==
    /\ pc = "done"
    /\ response.statusCode = 200
    /\ Len(response.body["strategies"]) >= 2
    /\ response.body["strategies"][1]["Link"] = response.body["strategies"][2]["Link"]

Contributed(adapter) ==
    CASE adapter = "scrape_youtube" -> youtube_strategies
      [] adapter = "scrape_option_alpha" -> oa_strategies
      [] adapter = "scrape_quantconnect" -> qc_strategies

\* C10. Adapter failure isolation: an adapter whose upstream call fails
\* contributes no record, the failure does not leave scrape_all, every
\* adapter is still invoked and the other adapters' records are all in the
\* output.
C10_FailureIsolated ==
    (pc = "done" /\ \E a \in Adapters : upstream[a] = "failed")
        => /\ Adapters \subseteq Range(calls)
           /\ response.statusCode = 200
           /\ \A a \in Adapters :
                 IF upstream[a] = "failed"
                 THEN Contributed(a) = <<>>
                 ELSE \A i \in 1..Len(Contributed(a)) :
                        \E j \in 1..Len(response.body["strategies"]) :
                           \A key \in DOMAIN Contributed(a)[i] \ {"No"} :
                              response.body["strategies"][j][key]
                                 = Contributed(a)[i][key]

\* C10's case: Option Alpha's upstream call failed, QuantConnect was still
\* invoked, and the records YouTube returned are in the output.
C10_OptionAlphaFailed ==
    /\ pc = "done"
    /\ upstream["scrape_option_alpha"] = "failed"
    /\ upstream["scrape_quantconnect"] = "ok"
    /\ Len(youtube_strategies) >= 1
    /\ response.statusCode = 200
    /\ Len(response.body["strategies"]) = Len(youtube_strategies)

\* one item of the search results, taken by itself: the record it builds
\* as the n-th accepted one, and "raise" when building or filtering it raises
ItemVerdict(c, it, n) == MeetsCriteria(c, BuildVideo(it, n))

\* the accepted records among the non-failing items of its, in order, each
\* item taken by itself: a failing item is passed over and the items after
\* it are still processed
RECURSIVE AcceptedAmongNonFailing(_, _, _)
AcceptedAmongNonFailing(c, its, strategies) ==
    IF its = <<>> THEN strategies
    ELSE AcceptedAmongNonFailing(
            c, Tail(its),
            IF ItemVerdict(c, Head(its), Len(strategies) + 1) = "accept"
            THEN Append(strategies, BuildVideo(Head(its), Len(strategies) + 1))
            ELSE strategies)

\* the items of the search results whose processing raises
FailingItems ==
    {i \in 1..Len(items) : ItemVerdict(criteria, items[i], 1) = "raise"}

\* C11. Item-level failure isolation: when the processing of one search
\* result raises inside scrape_youtube, only that item is skipped; what the
\* adapter returns is the accepted records among all its non-failing items.
C11_ItemFailureIsolated ==
    (upstream["scrape_youtube"] = "ok" /\ pc /= "scrape_youtube")
        => youtube_strategies = AcceptedAmongNonFailing(criteria, items, <<>>)
====
